---- MODULE Spec2Model ----
(***************************************************************************)
(* repal: reverse engineering of a PAL device from an EPROM dump.          *)
(*                                                                         *)
(* The model follows src/repal.py: the device profile and the dump are the *)
(* inputs, the output pins (class Pin) are the mutable state, and the      *)
(* stages of the main program are the actions: the dependency scan         *)
(* (build_outputpins_dependencies), the minterm builder                    *)
(* (build_outputpins_equations) and the writers of the equations file.     *)
(* The truth-table file (--truthtable) is not modelled.                    *)
(***************************************************************************)
EXTENDS Integers, Sequences, FiniteSets, TLC

VARIABLES
    device,       \* the selected device profile (global `device`)
    dumpdata,     \* the memory image (global `dumpdata`), indexed from 0
    outputpins,   \* the list of output Pin objects (global `outputpins`)
    pc,           \* the stage of the main program
    eprom_address,\* loop variable of the dependency scan
    ipidx,        \* index of `inputpin` in the scan (1-based)
    opidx,        \* index of `outputpin` in the scan / builder / writers (1-based)
    args,         \* the command line arguments read so far
    equations,    \* the lines written to the equations file
    error,        \* the exception that ended the run, or "none"
    today,        \* the local date the clock showed when the header was written
    simplified,   \* the answers the minimizer has given: it is a function
    load,         \* the profiles, the arguments and the file of the loading stage
    previous      \* the equations file and the date of an earlier run, if any

vars == <<device, dumpdata, outputpins, pc, eprom_address, ipidx, opidx,
          args, equations, error, today, simplified, load, previous>>

(***************************************************************************)
(* Bounds of the model.                                                    *)
(***************************************************************************)
MaxA == 2

MaxD == 2

MaxImageBits == 4

MaxAnalysisA == 3

MaxAnalysisBits == 8

(***************************************************************************)
(* Python's integer operators on non-negative integers.                    *)
(***************************************************************************)
RECURSIVE BitAnd(_, _)
BitAnd(x, y) ==
    IF x = 0 \/ y = 0 THEN 0
    ELSE (x % 2) * (y % 2) + 2 * BitAnd(x \div 2, y \div 2)

RECURSIVE BitOr(_, _)
BitOr(x, y) ==
    IF x = 0 THEN y
    ELSE IF y = 0 THEN x
    ELSE (IF x % 2 = 1 \/ y % 2 = 1 THEN 1 ELSE 0) + 2 * BitOr(x \div 2, y \div 2)

RECURSIVE BitXor(_, _)
BitXor(x, y) ==
    IF x = 0 THEN y
    ELSE IF y = 0 THEN x
    ELSE ((x + y) % 2) + 2 * BitXor(x \div 2, y \div 2)

\* x & ~m for non-negative x and m
BitClear(x, m) == x - BitAnd(x, m)

ShiftLeft(x, n) == x * (2 ^ n)

ShiftRight(x, n) == x \div (2 ^ n)

None == -1

(***************************************************************************)
(* The device profile.  Address bit i is wired to PAL pin i + 1; a data    *)
(* bit is wired either to one of those pins (a bidirectional pin, which    *)
(* then has a hi-z probe) or to a pin of its own, 11 + its position.       *)
(***************************************************************************)
PalPinNames ==
    [n \in {1, 2, 3, 4, 11, 12, 13} |->
        CASE n = 1 -> "A" [] n = 2 -> "B" [] n = 3 -> "C" [] n = 4 -> "D"
          [] n = 11 -> "X" [] n = 12 -> "Y" [] n = 13 -> "Z"]

AddressPins(A) == [i \in 1..A |-> i]

\* the choices of eprom_data_pins for O output pins: distinct PAL pins
DataPinChoices(A, O) ==
    {dp \in [1..O -> (1..A) \cup {11, 12, 13}] :
        /\ \A j \in 1..O : dp[j] \in 1..A \/ dp[j] = 10 + j
        /\ \A j, k \in 1..O : j # k => dp[j] # dp[k]}

\* H <= A, H <= D and O <= D; the image has at most maxBits bits
Profiles(maxA, maxD, maxBits) ==
    UNION {UNION {UNION {UNION {
        {[eprom_address_width |-> A, eprom_data_width |-> D,
          eprom_hiz_probe_pins |-> H, pal_output_pins |-> O,
          eprom_address_pins |-> AddressPins(A), eprom_data_pins |-> dp] :
            dp \in DataPinChoices(A, O)} :
        O \in 1..D} :
        H \in {h \in 0..A : h <= D}} :
        D \in {d \in 1..maxD : (2 ^ A) * d <= maxBits}} :
        A \in 0..maxA}

Images(p) ==
    [0..(2 ^ p.eprom_address_width - 1) -> 0..(2 ^ p.eprom_data_width - 1)]

(***************************************************************************)
(* Pin and PinDependencies objects.                                        *)
(***************************************************************************)
PinDependencies == [bitmap |-> 0, bits |-> <<>>, pinnames |-> <<>>]

\* palpinnum_to_epromaddrbitpos: list.index, None when absent
palpinnum_to_epromaddrbitpos(dev, palpinnum) ==
    IF \E i \in 1..Len(dev.eprom_address_pins) : dev.eprom_address_pins[i] = palpinnum
    THEN (CHOOSE i \in 1..Len(dev.eprom_address_pins) :
             /\ dev.eprom_address_pins[i] = palpinnum
             /\ \A k \in 1..(i - 1) : dev.eprom_address_pins[k] # palpinnum) - 1
    ELSE None

build_inputpins_configuration(dev) ==
    [i \in 1..dev.eprom_address_width |->
        [bitpos |-> i - 1,
         bitmask |-> ShiftLeft(1, i - 1),
         number |-> dev.eprom_address_pins[i],
         name |-> PalPinNames[dev.eprom_address_pins[i]]]]

\* a configuration that records no hi-z probe for any output pin, for
\* comparison
build_outputpins_configuration_unprobed(dev) ==
    [j \in 1..dev.pal_output_pins |->
        LET number == dev.eprom_data_pins[j]
        IN [bitpos |-> j - 1,
            bitmask |-> ShiftLeft(1, j - 1),
            number |-> number,
            name |-> PalPinNames[number],
            hizprobebitpos |-> None,
            hizprobebitmask |-> 0,
            seenlow |-> 0,
            seenhigh |-> 0,
            depends |-> PinDependencies,
            oe_depends |-> PinDependencies,
            dontcareterms |-> <<>>,
            negminterms |-> <<>>,
            posminterms |-> <<>>,
            oenegminterms |-> <<>>,
            oeposminterms |-> <<>>]]


build_outputpins_configuration(dev) ==
    [j \in 1..dev.pal_output_pins |->
        LET number == dev.eprom_data_pins[j]
            probe == palpinnum_to_epromaddrbitpos(dev, number)
        IN [bitpos |-> j - 1,
            bitmask |-> ShiftLeft(1, j - 1),
            number |-> number,
            name |-> PalPinNames[number],
            hizprobebitpos |-> probe,
            hizprobebitmask |-> IF probe # None THEN ShiftLeft(1, probe) ELSE 0,
            seenlow |-> 0,
            seenhigh |-> 0,
            depends |-> PinDependencies,
            oe_depends |-> PinDependencies,
            dontcareterms |-> <<>>,
            negminterms |-> <<>>,
            posminterms |-> <<>>,
            oenegminterms |-> <<>>,
            oeposminterms |-> <<>>]]

inputpins == build_inputpins_configuration(device)

SeqContains(s, x) == \E i \in 1..Len(s) : s[i] = x

NoArgs == [polarity |-> "unread", oepolarity |-> "unread"]

\* the dump is already read: nothing is left of the loading stage
NoLoad == [devices |-> <<>>, devicetype |-> "auto", file |-> <<>>, position |-> 0,
           dataarray |-> <<>>]

NoPrevious == [equations |-> <<>>, today |-> 0]

(***************************************************************************)
(* The state after the dump is read and the pin lists are configured.      *)
(***************************************************************************)
InitWith(maxA, maxD, maxBits) ==
    /\ device \in Profiles(maxA, maxD, maxBits)
    /\ dumpdata \in Images(device)
    /\ outputpins = build_outputpins_configuration(device)
    /\ pc = "scan"
    /\ eprom_address = 0
    /\ ipidx = 1
    /\ opidx = 1
    /\ args = NoArgs
    /\ equations = <<>>
    /\ error = "none"
    /\ today = 0
    /\ simplified = {}
    /\ load = NoLoad
    /\ previous = NoPrevious

(***************************************************************************)
(* build_outputpins_dependencies: one action per iteration of the loops    *)
(* over eprom_address, inputpin and outputpin.                             *)
(***************************************************************************)
AddressCount == 2 ^ device.eprom_address_width

\* the next (eprom_address, inputpin) pair, or the end of the scan
NextInput ==
    IF ipidx < device.eprom_address_width
    THEN /\ ipidx' = ipidx + 1
         /\ opidx' = 1
         /\ UNCHANGED <<eprom_address, pc>>
    ELSE /\ ipidx' = 1
         /\ opidx' = 1
         /\ eprom_address' = eprom_address + 1
         /\ pc' = IF eprom_address + 1 >= AddressCount THEN "build" ELSE "scan"

NextOutput ==
    IF opidx < device.pal_output_pins
    THEN /\ opidx' = opidx + 1
         /\ UNCHANGED <<eprom_address, ipidx, pc>>
    ELSE NextInput

AddDependency(dep, inputpin) ==
    [bitmap |-> BitOr(dep.bitmap, inputpin.bitmask),
     bits |-> Append(dep.bits, inputpin.bitmask),
     pinnames |-> Append(dep.pinnames, inputpin.name)]

\* a scan that takes every output for driven, for comparison
NeverHiz(data, outputpin, addr) == FALSE

\* is the output pin in hi-z at this address: does its bit follow the probe
IsHiz(data, outputpin, addr) ==
    IF outputpin.hizprobebitpos = None
    THEN FALSE
    ELSE BitAnd(data[addr], outputpin.bitmask)
            # BitAnd(data[BitXor(addr, outputpin.hizprobebitmask)], outputpin.bitmask)

\* a scan that records the high level only, for comparison
SeeLevelHighOnly(outputpin, is_hiz, output) ==
    IF is_hiz \/ output = 0 THEN outputpin
    ELSE [outputpin EXCEPT !.seenhigh = 1]

\* a scan that takes the level of a pin in hi-z for an observation, for
\* comparison
SeeLevelAlways(outputpin, is_hiz, output) ==
    IF output = 0 THEN [outputpin EXCEPT !.seenlow = 1]
    ELSE [outputpin EXCEPT !.seenhigh = 1]

SeeLevel(outputpin, is_hiz, output) ==
    IF is_hiz THEN outputpin
    ELSE IF output = 0 THEN [outputpin EXCEPT !.seenlow = 1]
    ELSE [outputpin EXCEPT !.seenhigh = 1]

\* a scan that records an input pin at every address that shows it, for
\* comparison
ScanOutputPinRepeated(data, outputpin, inputpin, addr) ==
    LET eprom_address_when_input_0 == addr
        eprom_address_when_input_1 == BitOr(addr, inputpin.bitmask)
        output_when_input_0 == BitAnd(data[eprom_address_when_input_0], outputpin.bitmask)
        output_when_input_1 == BitAnd(data[eprom_address_when_input_1], outputpin.bitmask)
        is_hiz_when_input_0 == IsHiz(data, outputpin, eprom_address_when_input_0)
        is_hiz_when_input_1 == IsHiz(data, outputpin, eprom_address_when_input_1)
        p1 == IF is_hiz_when_input_0 # is_hiz_when_input_1
              THEN [outputpin EXCEPT !.oe_depends = AddDependency(@, inputpin)]
              ELSE outputpin
        p2 == IF /\ ~is_hiz_when_input_0
                 /\ ~is_hiz_when_input_1
                 /\ output_when_input_0 # output_when_input_1
              THEN [p1 EXCEPT !.depends = AddDependency(@, inputpin)]
              ELSE p1
        p3 == SeeLevel(p2, is_hiz_when_input_0, output_when_input_0)
    IN SeeLevel(p3, is_hiz_when_input_1, output_when_input_1)

\* the body of the loop over the output pins, lines 683-747
ScanOutputPin(data, outputpin, inputpin, addr) ==
    LET eprom_address_when_input_0 == addr
        eprom_address_when_input_1 == BitOr(addr, inputpin.bitmask)
        output_when_input_0 == BitAnd(data[eprom_address_when_input_0], outputpin.bitmask)
        output_when_input_1 == BitAnd(data[eprom_address_when_input_1], outputpin.bitmask)
        is_hiz_when_input_0 == IsHiz(data, outputpin, eprom_address_when_input_0)
        is_hiz_when_input_1 == IsHiz(data, outputpin, eprom_address_when_input_1)
        p1 == IF /\ is_hiz_when_input_0 # is_hiz_when_input_1
                 /\ ~SeqContains(outputpin.oe_depends.pinnames, inputpin.name)
              THEN [outputpin EXCEPT !.oe_depends = AddDependency(@, inputpin)]
              ELSE outputpin
        p2 == IF /\ ~is_hiz_when_input_0
                 /\ ~is_hiz_when_input_1
                 /\ output_when_input_0 # output_when_input_1
                 /\ ~SeqContains(p1.depends.pinnames, inputpin.name)
              THEN [p1 EXCEPT !.depends = AddDependency(@, inputpin)]
              ELSE p1
        p3 == SeeLevel(p2, is_hiz_when_input_0, output_when_input_0)
    IN SeeLevel(p3, is_hiz_when_input_1, output_when_input_1)

\* range(2 ** 0) with no input pin: the loop body never runs
ScanNoInput ==
    /\ pc = "scan"
    /\ device.eprom_address_width = 0
    /\ pc' = "build"
    /\ UNCHANGED <<device, dumpdata, outputpins, eprom_address, ipidx, opidx,
                   args, equations, error, today, simplified, load, previous>>

\* line 645: the input bit is high in this address
ScanSkipInput ==
    /\ pc = "scan"
    /\ device.eprom_address_width > 0
    /\ BitAnd(eprom_address, inputpins[ipidx].bitmask) > 0
    /\ NextInput
    /\ UNCHANGED <<device, dumpdata, outputpins, args, equations, error, today,
                   simplified, load, previous>>

ProbeIsSet(outputpin, inputpin, addr) ==
    \/ BitAnd(addr, outputpin.hizprobebitmask) > 0
    \/ BitAnd(BitOr(addr, inputpin.bitmask), outputpin.hizprobebitmask) > 0

\* lines 673-677: the hi-z probe of the output pin is high in either address
ScanSkipProbe ==
    /\ pc = "scan"
    /\ device.eprom_address_width > 0
    /\ BitAnd(eprom_address, inputpins[ipidx].bitmask) = 0
    /\ ProbeIsSet(outputpins[opidx], inputpins[ipidx], eprom_address)
    /\ NextOutput
    /\ UNCHANGED <<device, dumpdata, outputpins, args, equations, error, today,
                   simplified, load, previous>>

\* a scan that records the levels it observes on every output pin, for
\* comparison
ScanPinShared ==
    /\ pc = "scan"
    /\ device.eprom_address_width > 0
    /\ BitAnd(eprom_address, inputpins[ipidx].bitmask) = 0
    /\ ~ProbeIsSet(outputpins[opidx], inputpins[ipidx], eprom_address)
    /\ LET scanned == ScanOutputPin(dumpdata, outputpins[opidx], inputpins[ipidx],
                                     eprom_address)
       IN outputpins' = [j \in 1..Len(outputpins) |->
              IF j = opidx THEN scanned
              ELSE [outputpins[j] EXCEPT !.seenlow = scanned.seenlow,
                                         !.seenhigh = scanned.seenhigh]]
    /\ NextOutput
    /\ UNCHANGED <<device, dumpdata, args, equations, error, today,
                   simplified, load, previous>>

ScanPin ==
    /\ pc = "scan"
    /\ device.eprom_address_width > 0
    /\ BitAnd(eprom_address, inputpins[ipidx].bitmask) = 0
    /\ ~ProbeIsSet(outputpins[opidx], inputpins[ipidx], eprom_address)
    /\ outputpins' = [outputpins EXCEPT ![opidx] =
            ScanOutputPin(dumpdata, @, inputpins[ipidx], eprom_address)]
    /\ NextOutput
    /\ UNCHANGED <<device, dumpdata, args, equations, error, today,
                   simplified, load, previous>>

(***************************************************************************)
(* iterate_mask: the combinations of the bits that are high in a mask.     *)
(***************************************************************************)
RECURSIVE MaskBits(_, _)
\* lines 472-484: the bits that are high in the mask, lowest first
MaskBits(mask, bit) ==
    IF bit > mask THEN <<>>
    ELSE (IF BitAnd(mask, bit) # 0 THEN <<bit>> ELSE <<>>) \o MaskBits(mask, 2 * bit)

RECURSIVE SpreadBits(_, _, _, _)
\* lines 492-500: r |= bit for every bit whose position is set in n
SpreadBits(bits, n, i, r) ==
    IF i > Len(bits) THEN r
    ELSE SpreadBits(bits, n, i + 1,
                    IF BitAnd(n, ShiftLeft(1, i - 1)) # 0 THEN BitOr(r, bits[i]) ELSE r)

iterate_mask(mask) ==
    IF mask < 1 THEN <<>>
    ELSE LET bits == MaskBits(mask, 1)
         IN [n \in 1..(2 ^ Len(bits)) |-> SpreadBits(bits, n - 1, 1, 0)]

RECURSIVE build_outputpin_minterm_from(_, _, _)
build_outputpin_minterm_from(dependencies, epromaddr, pinidx) ==
    IF pinidx > Len(dependencies.bits) THEN 0
    ELSE BitOr(IF BitAnd(epromaddr, dependencies.bits[pinidx]) # 0
               THEN ShiftLeft(1, pinidx - 1) ELSE 0,
               build_outputpin_minterm_from(dependencies, epromaddr, pinidx + 1))

\* a builder that leaves the address as it is, for comparison: the closure
\* of the minterm lists rests on the packing of the dependency bits
build_outputpin_minterm_unpacked(dependencies, epromaddr) == epromaddr

build_outputpin_minterm(dependencies, epromaddr) ==
    build_outputpin_minterm_from(dependencies, epromaddr, 1)

(***************************************************************************)
(* check_input_combination_is_relevent                                     *)
(***************************************************************************)
hiz_input_mask(dev) ==
    ShiftLeft(2 ^ dev.eprom_hiz_probe_pins - 1,
              dev.eprom_address_width - dev.eprom_hiz_probe_pins)

hiz_data_mask(dev) ==
    ShiftLeft(2 ^ (dev.eprom_data_width - dev.eprom_hiz_probe_pins) - 1,
              dev.eprom_hiz_probe_pins)

check_input_combination_is_relevent(dev, data, outputpin, epromaddr) ==
    LET inversebitmap == BitXor(2 ^ dev.eprom_address_width - 1, outputpin.depends.bitmap)
        others == iterate_mask(BitAnd(inversebitmap, hiz_input_mask(dev)))
    IN \E i \in 1..Len(others) :
          LET epromaddr2 == BitOr(epromaddr, others[i])
              hiz_data == ShiftRight(BitAnd(epromaddr2, hiz_input_mask(dev)),
                                     dev.eprom_address_width - dev.eprom_hiz_probe_pins)
              relevant_data == BitClear(data[epromaddr2], hiz_data_mask(dev))
          IN hiz_data = relevant_data

(***************************************************************************)
(* get_output_pin_data: the data word, or the RuntimeError of line 948.    *)
(***************************************************************************)
\* a test that takes the pin for driven at every address, for comparison
IsDrivenAlways(data, outputpin, addr) == TRUE

IsDriven(data, outputpin, addr) ==
    BitAnd(data[addr], outputpin.bitmask)
        = BitAnd(data[BitXor(addr, outputpin.hizprobebitmask)], outputpin.bitmask)

\* a reader that never looks at the other addresses, for comparison
get_output_pin_data_here(data, outputpin, epromaddr) ==
    [raised |-> FALSE, data |-> data[epromaddr], addr |-> epromaddr]

get_output_pin_data(data, outputpin, epromaddr) ==
    IF IsDriven(data, outputpin, epromaddr)
    THEN [raised |-> FALSE, data |-> data[epromaddr], addr |-> epromaddr]
    ELSE LET others == iterate_mask(outputpin.oe_depends.bitmap)
             hits == {i \in 1..Len(others) :
                         IsDriven(data, outputpin, BitOr(epromaddr, others[i]))}
         IN IF hits = {}
            THEN [raised |-> TRUE, data |-> 0, addr |-> epromaddr]
            ELSE LET first == CHOOSE i \in hits : \A k \in hits : i <= k
                     epromaddr2 == BitOr(epromaddr, others[first])
                 IN [raised |-> FALSE, data |-> data[epromaddr2], addr |-> epromaddr2]

(***************************************************************************)
(* build_outputpins_equations: one action per output pin.                  *)
(***************************************************************************)
NameRank(name) ==
    CASE name = "A" -> 1 [] name = "B" -> 2 [] name = "C" -> 3 [] name = "D" -> 4
      [] name = "X" -> 5 [] name = "Y" -> 6 [] name = "Z" -> 7

\* Python's order on (bit, name) tuples
PairLess(p, q) ==
    \/ p[1] < q[1]
    \/ p[1] = q[1] /\ NameRank(p[2]) < NameRank(q[2])

RECURSIVE InsertPair(_, _)
InsertPair(sortedpairs, p) ==
    IF sortedpairs = <<>> THEN <<p>>
    ELSE IF PairLess(p, Head(sortedpairs)) THEN <<p>> \o sortedpairs
    ELSE <<Head(sortedpairs)>> \o InsertPair(Tail(sortedpairs), p)

RECURSIVE SortedPairs(_)
\* sorted(zip(bits, pinnames)): stable, ascending
SortedPairs(pairs) ==
    IF pairs = <<>> THEN <<>>
    ELSE InsertPair(SortedPairs(SubSeq(pairs, 1, Len(pairs) - 1)), pairs[Len(pairs)])

\* the dependencies in the order the scan found them, for comparison
KeepDependencies(dep) == dep

\* lines 973-975 and 981-983: sort bits and pinnames together
SortDependencies(dep) ==
    IF Len(dep.bits) > 0
    THEN LET pairs == SortedPairs([i \in 1..Len(dep.bits) |-> <<dep.bits[i], dep.pinnames[i]>>])
         IN [dep EXCEPT !.bits = [i \in 1..Len(pairs) |-> pairs[i][1]],
                        !.pinnames = [i \in 1..Len(pairs) |-> pairs[i][2]]]
    ELSE dep

RECURSIVE BuildOutputTerms(_, _, _, _, _)
\* lines 995-1030, from the i-th combination on
BuildOutputTerms(dev, data, outputpin, addrs, i) ==
    IF i > Len(addrs) THEN [pin |-> outputpin, raised |-> FALSE]
    ELSE LET epromaddr == addrs[i]
             minterm == build_outputpin_minterm(outputpin.depends, epromaddr)
         IN IF ~check_input_combination_is_relevent(dev, data, outputpin, epromaddr)
            THEN BuildOutputTerms(dev, data,
                    [outputpin EXCEPT !.dontcareterms = Append(@, minterm)], addrs, i + 1)
            ELSE LET got == get_output_pin_data(data, outputpin, epromaddr)
                 IN IF got.raised THEN [pin |-> outputpin, raised |-> TRUE]
                    ELSE IF BitAnd(got.data, outputpin.bitmask) = 0
                    THEN BuildOutputTerms(dev, data,
                            [outputpin EXCEPT !.negminterms = Append(@, minterm)], addrs, i + 1)
                    ELSE BuildOutputTerms(dev, data,
                            [outputpin EXCEPT !.posminterms = Append(@, minterm)], addrs, i + 1)

RECURSIVE BuildEnableTerms(_, _, _, _)
\* lines 1042-1067, from the i-th combination on
BuildEnableTerms(data, outputpin, addrs, i) ==
    IF i > Len(addrs) THEN outputpin
    ELSE LET epromaddr == addrs[i]
             minterm == build_outputpin_minterm(outputpin.oe_depends, epromaddr)
         IN IF ~IsDriven(data, outputpin, epromaddr)
            THEN BuildEnableTerms(data,
                    [outputpin EXCEPT !.oenegminterms = Append(@, minterm)], addrs, i + 1)
            ELSE BuildEnableTerms(data,
                    [outputpin EXCEPT !.oeposminterms = Append(@, minterm)], addrs, i + 1)

\* the body of the loop over the output pins, lines 973-1067
BuildOutputPin(dev, data, outputpin) ==
    LET sorted == [outputpin EXCEPT !.depends = SortDependencies(@),
                                    !.oe_depends = SortDependencies(@)]
        out == IF sorted.depends.bitmap # 0
               THEN BuildOutputTerms(dev, data, sorted, iterate_mask(sorted.depends.bitmap), 1)
               ELSE [pin |-> sorted, raised |-> FALSE]
    IN IF out.raised THEN out
       ELSE IF out.pin.oe_depends.bitmap # 0
       THEN [pin |-> BuildEnableTerms(data, out.pin,
                        iterate_mask(out.pin.oe_depends.bitmap), 1),
             raised |-> FALSE]
       ELSE out

BuildPin ==
    /\ pc = "build"
    /\ LET out == BuildOutputPin(device, dumpdata, outputpins[opidx])
       IN /\ outputpins' = [outputpins EXCEPT ![opidx] = out.pin]
          /\ IF out.raised
             THEN /\ pc' = "failed"
                  /\ error' = "RuntimeError"
                  /\ UNCHANGED opidx
             ELSE /\ error' = error
                  /\ IF opidx < device.pal_output_pins
                     THEN /\ opidx' = opidx + 1
                          /\ pc' = pc
                     ELSE /\ opidx' = 1
                          /\ pc' = "open"
    /\ UNCHANGED <<device, dumpdata, eprom_address, ipidx, args, equations, today,
                   simplified, load, previous>>

NextAnalysis == ScanNoInput \/ ScanSkipInput \/ ScanSkipProbe \/ ScanPin \/ BuildPin

InitAnalysis == InitWith(MaxAnalysisA, MaxD, MaxAnalysisBits)

SpecAnalysis == InitAnalysis /\ [][NextAnalysis]_vars

Built == pc \in {"open", "failed"}

(***************************************************************************)
(* The Boolean minimizer (boolexprsimplifier.simplify_minterms), an        *)
(* external collaborator: any result its contract allows.  A result is the *)
(* literal True, the literal False, or a list of products (bits, mask).    *)
(* Lists are irredundant covers of at most MaxProducts products.  The      *)
(* minimizer is a function: asked the same question again, it gives the    *)
(* answer recorded in `simplified`.                                        *)
(***************************************************************************)
MaxProducts == 2

ResultTrue == [kind |-> "True", products |-> <<>>]

ResultFalse == [kind |-> "False", products |-> <<>>]

ResultList(products) == [kind |-> "list", products |-> products]

IsBool(results) == results.kind \in {"True", "False"}

SeqToSet(s) == {s[i] : i \in 1..Len(s)}

\* the products over k inputs: the value bits lie within the care mask
Products(k) ==
    {pr \in (0..(2 ^ k - 1)) \X (0..(2 ^ k - 1)) : BitAnd(pr[1], pr[2]) = pr[1]}

ProductCovers(pr, minterm) == BitAnd(minterm, pr[2]) = pr[1]

ListCovers(products, minterm) ==
    \E i \in 1..Len(products) : ProductCovers(products[i], minterm)

\* every product is needed: it covers an on-minterm no other product covers
Irredundant(products, on) ==
    \A i \in 1..Len(products) :
        \E m \in on :
            /\ ProductCovers(products[i], m)
            /\ \A j \in 1..Len(products) : j # i => ~ProductCovers(products[j], m)

SimplifyResults(k, on, dontcare) ==
    LET all == 0..(2 ^ k - 1)
        off == all \ (on \cup dontcare)
        usable == {pr \in Products(k) : \A m \in off : ~ProductCovers(pr, m)}
        lists == UNION {[1..n -> usable] : n \in 1..MaxProducts}
    IN {ResultList(l) : l \in {c \in lists :
            /\ \A m \in on : ListCovers(c, m)
            /\ Irredundant(c, on)}}
       \cup (IF off = {} THEN {ResultTrue} ELSE {})
       \cup (IF on = {} THEN {ResultFalse} ELSE {})

\* the question asked by simplify_minterms(pin_names, minterms, dontcareminterms)
Question(pin_names, minterms, dontcareminterms) ==
    [k |-> Len(pin_names), on |-> SeqToSet(minterms), dontcare |-> SeqToSet(dontcareminterms)]

\* the answers the minimizer may give, given the answers `known` it has given
simplify_minterms(known, question) ==
    IF \E a \in known : a.question = question
    THEN {a.results : a \in {b \in known : b.question = question}}
    ELSE SimplifyResults(question.k, question.on, question.dontcare)

(***************************************************************************)
(* write_pin_equations.  A line of the file is the sequence of the strings *)
(* that the code concatenates in one write; Text is the line as written.   *)
(***************************************************************************)
ANDSTR == "&"

ORSTR == "#"

NOTSTR == "!"

RECURSIVE Text(_)
Text(line) == IF line = <<>> THEN "" ELSE Head(line) \o Text(Tail(line))

RECURSIVE get_set_bits_from(_, _, _)
get_set_bits_from(bitcount, bits, bitnum) ==
    IF bitnum >= bitcount THEN <<>>
    ELSE (IF BitAnd(bits, ShiftLeft(1, bitnum)) # 0 THEN <<bitnum>> ELSE <<>>)
            \o get_set_bits_from(bitcount, bits, bitnum + 1)

get_set_bits(bitcount, bits) == get_set_bits_from(bitcount, bits, 0)

RECURSIVE TupleLess(_, _)
\* Python's order on tuples of integers
TupleLess(s, t) ==
    IF t = <<>> THEN FALSE
    ELSE IF s = <<>> THEN TRUE
    ELSE IF Head(s) # Head(t) THEN Head(s) < Head(t)
    ELSE TupleLess(Tail(s), Tail(t))

\* line 1247: the sort key of a product, the set bits of its care mask
SortKey(pinnames, r) == get_set_bits(Len(pinnames), r[2])

RECURSIVE InsertByKey(_, _, _)
\* a stable insertion: after every element whose key is not greater
InsertByKey(pinnames, sortedresult, r) ==
    IF sortedresult = <<>> THEN <<r>>
    ELSE IF TupleLess(SortKey(pinnames, r), SortKey(pinnames, Head(sortedresult)))
    THEN <<r>> \o sortedresult
    ELSE <<Head(sortedresult)>> \o InsertByKey(pinnames, Tail(sortedresult), r)

RECURSIVE SortedByKey(_, _)
\* line 1247: sorted(result, key = ...)
SortedByKey(pinnames, result) ==
    IF result = <<>> THEN <<>>
    ELSE InsertByKey(pinnames, SortedByKey(pinnames, SubSeq(result, 1, Len(result) - 1)),
                     result[Len(result)])

RECURSIVE ProductLine(_, _, _)
\* lines 1268-1302: ' & '.join(symbols), from the i-th pin name on
ProductLine(pinnames, pr, i) ==
    IF i > Len(pinnames) THEN ""
    ELSE LET rest == ProductLine(pinnames, pr, i + 1)
             bit == ShiftLeft(1, i - 1)
             symbol == IF BitAnd(pr[1], bit) # 0 THEN pinnames[i] ELSE "!" \o pinnames[i]
         IN IF BitAnd(pr[2], bit) = 0 THEN rest
            ELSE IF rest = "" THEN symbol
            ELSE symbol \o " & " \o rest

RECURSIVE Spaces(_)
Spaces(n) == IF n = 0 THEN "" ELSE " " \o Spaces(n - 1)

SignedName(name, polarity) == IF polarity = "positive" THEN name ELSE NOTSTR \o name

write_pin_equations(name, pinnames, results, polarity) ==
    LET signedname == SignedName(name, polarity)
    IN IF results.kind = "True" THEN <<(<<signedname, " = 'b'1;">>)>>
       ELSE IF results.kind = "False" THEN <<(<<signedname, " = 'b'0;">>)>>
       ELSE LET result == SortedByKey(pinnames, results.products)
            IN [i \in 1..Len(result) |->
                  LET line == ProductLine(pinnames, result[i], 1)
                      eol == IF i = Len(result) THEN ";" ELSE ""
                  IN IF i = 1
                     THEN <<signedname, " = ", line, eol>>
                     ELSE <<Spaces(Len(signedname)), " " \o ORSTR \o " ", line, eol>>]

(***************************************************************************)
(* Writers of the equations file.  A line is written without its newline.  *)
(***************************************************************************)
Polarities == {"auto", "both", "positive", "negative"}

MaxDays == 2

\* strftime("%x") of the local date
DateText(day) == "11/0" \o ToString(day) \o "/26"

write_equations_newline == <<(<<>>)>>

write_equations_section_title(title) == <<(<<>>), <<"/* ", title, " */">>, <<>> >>

\* a header that stamps the date on the Name line as well, for comparison
write_equations_file_header_stamped(filename, devicename, day) ==
    << <<"Name ", filename, " ", DateText(day), ";">>,
       <<"Device ", devicename, ";">>,
       <<"Partno ;">>,
       <<"Revision ;">>,
       <<"Date ", DateText(day), ";">>,
       <<"Designer ;">>,
       <<"Company ;">>,
       <<"Assembly ;">>,
       <<"Location ;">>,
       <<>> >>

write_equations_file_header(filename, devicename, day) ==
    << <<"Name ", filename, ";">>,
       <<"Device ", devicename, ";">>,
       <<"Partno ;">>,
       <<"Revision ;">>,
       <<"Date ", DateText(day), ";">>,
       <<"Designer ;">>,
       <<"Company ;">>,
       <<"Assembly ;">>,
       <<"Location ;">>,
       <<>> >>

\* list.index of the PAL pin in eprom_data_pins, None when absent (0-based)
palpinnum_to_epromdatabitpos(dev, palpinnum) ==
    IF \E j \in 1..Len(dev.eprom_data_pins) : dev.eprom_data_pins[j] = palpinnum
    THEN (CHOOSE j \in 1..Len(dev.eprom_data_pins) : dev.eprom_data_pins[j] = palpinnum) - 1
    ELSE None

RECURSIVE SortedNumbers(_)
SortedNumbers(S) ==
    IF S = {} THEN <<>>
    ELSE LET least == CHOOSE n \in S : \A m \in S : n <= m
         IN <<least>> \o SortedNumbers(S \ {least})

\* the keys of pal_pin_names: the PAL pins of the device, in ascending order
DevicePins(dev) ==
    SortedNumbers(SeqToSet(dev.eprom_address_pins) \cup SeqToSet(dev.eprom_data_pins))

\* an annotation that leaves the output enable out, for comparison
PinAnnotationPlain(dev, pins, number) ==
    LET outputindex == palpinnum_to_epromdatabitpos(dev, number)
    IN IF outputindex = None THEN "Dedicated input"
       ELSE LET outputpin == pins[outputindex + 1]
            IN IF outputpin.depends.bitmap = 0
               THEN IF outputpin.seenhigh # 0 THEN "Fixed high output"
                    ELSE IF outputpin.seenlow # 0 THEN "Fixed low output"
                    ELSE "Input"
               ELSE "Combinatorial output"

\* lines 1376-1466: the annotation of one pin
PinAnnotation(dev, pins, number) ==
    LET outputindex == palpinnum_to_epromdatabitpos(dev, number)
    IN IF outputindex = None THEN "Dedicated input"
       ELSE LET outputpin == pins[outputindex + 1]
            IN IF outputpin.oe_depends.bitmap = 0
               THEN IF outputpin.depends.bitmap = 0
                    THEN IF outputpin.seenhigh # 0 THEN "Fixed high output"
                         ELSE IF outputpin.seenlow # 0 THEN "Fixed low output"
                         ELSE "Input"
                    ELSE "Combinatorial output"
               ELSE IF outputpin.depends.bitmap = 0
                    THEN IF outputpin.seenhigh # 0 THEN "Fixed high output w/ output enable"
                         ELSE "Fixed low output w/ output enable"
                    ELSE "Combinatorial output w/ output enable"

write_equations_pin_aliases(dev, pins) ==
    LET numbers == DevicePins(dev)
    IN write_equations_section_title("Pin mappings")
       \o [i \in 1..Len(numbers) |->
             <<"pin ", ToString(numbers[i]), " = ", PalPinNames[numbers[i]],
               ";  /* ", PinAnnotation(dev, pins, numbers[i]), " */ ">>]
       \o write_equations_newline

write_equations_pin_name_value(name, value, polarity) ==
    IF value = 0
    THEN CASE polarity \in {"auto", "positive"} -> <<(<<name, " = 'b'0;">>)>>
           [] polarity = "negative" -> <<(<<NOTSTR \o name, " = 'b'1;">>)>>
           [] polarity = "both" -> << <<name, " = 'b'0;">>, <<NOTSTR \o name, " = 'b'1;">> >>
    ELSE CASE polarity \in {"auto", "positive"} -> <<(<<name, " = 'b'1;">>)>>
           [] polarity = "negative" -> <<(<<NOTSTR \o name, " = 'b'0;">>)>>
           [] polarity = "both" -> << <<name, " = 'b'1;">>, <<NOTSTR \o name, " = 'b'0;">> >>

\* a writer that under "both" writes the negative equation first and under
\* "negative" the positive terms, for comparison
WriteSimplifiedSwapped(name, pinnames, pos, neg, polarity) ==
    IF polarity = "both"
    THEN [raised |-> FALSE,
          lines |-> write_pin_equations(name, pinnames, neg, "negative")
                    \o write_pin_equations(name, pinnames, pos, "positive")
                    \o write_equations_newline]
    ELSE IF polarity = "positive" \/ (polarity = "auto" /\ IsBool(pos))
    THEN [raised |-> FALSE,
          lines |-> write_pin_equations(name, pinnames, pos, "positive")
                    \o write_equations_newline]
    ELSE IF polarity = "auto" /\ IsBool(neg)
    THEN [raised |-> TRUE, lines |-> <<>>]
    ELSE IF polarity = "auto" /\ Len(pos.products) <= Len(neg.products)
    THEN [raised |-> FALSE,
          lines |-> write_pin_equations(name, pinnames, pos, "positive")
                    \o write_equations_newline]
    ELSE [raised |-> FALSE,
          lines |-> write_pin_equations(name, pinnames, pos, "negative")
                    \o write_equations_newline]

\* lines 1610-1643 and 1711-1744: the choice of the polarity and the lines
\* written; len(simplified_terms_neg[0]) raises TypeError on a literal
WriteSimplified(name, pinnames, pos, neg, polarity) ==
    IF polarity = "both"
    THEN [raised |-> FALSE,
          lines |-> write_pin_equations(name, pinnames, pos, "positive")
                    \o write_pin_equations(name, pinnames, neg, "negative")
                    \o write_equations_newline]
    ELSE IF polarity = "positive" \/ (polarity = "auto" /\ IsBool(pos))
    THEN [raised |-> FALSE,
          lines |-> write_pin_equations(name, pinnames, pos, "positive")
                    \o write_equations_newline]
    ELSE IF polarity = "auto" /\ IsBool(neg)
    THEN [raised |-> TRUE, lines |-> <<>>]
    ELSE IF polarity = "auto" /\ Len(pos.products) <= Len(neg.products)
    THEN [raised |-> FALSE,
          lines |-> write_pin_equations(name, pinnames, pos, "positive")
                    \o write_equations_newline]
    ELSE [raised |-> FALSE,
          lines |-> write_pin_equations(name, pinnames, neg, "negative")
                    \o write_equations_newline]

\* a writer that takes a pin never seen high for a low pin, for comparison
WriteConstantOutputUnseen(outputpin, polarity) ==
    IF outputpin.seenhigh # 0
    THEN write_equations_pin_name_value(outputpin.name, 1, polarity) \o write_equations_newline
    ELSE write_equations_pin_name_value(outputpin.name, 0, polarity) \o write_equations_newline

\* lines 1570-1582: an output pin without dependencies
WriteConstantOutput(outputpin, polarity) ==
    IF outputpin.seenhigh # 0
    THEN write_equations_pin_name_value(outputpin.name, 1, polarity) \o write_equations_newline
    ELSE IF outputpin.seenlow # 0
    THEN write_equations_pin_name_value(outputpin.name, 0, polarity) \o write_equations_newline
    ELSE <<>>

\* a writer that leaves out the pins never seen driven, for comparison
WriteConstantEnableSeenOnly(outputpin, polarity) ==
    IF outputpin.seenhigh # 0 \/ outputpin.seenlow # 0
    THEN write_equations_pin_name_value(outputpin.name \o ".oe", 1, polarity)
            \o write_equations_newline
    ELSE <<>>

\* a writer that takes every pin for an enabled one, for comparison
WriteConstantEnableAlways(outputpin, polarity) ==
    write_equations_pin_name_value(outputpin.name \o ".oe", 1, polarity)
        \o write_equations_newline

\* lines 1674-1684: an output pin without output enable dependencies
WriteConstantEnable(outputpin, polarity) ==
    IF outputpin.seenhigh # 0 \/ outputpin.seenlow # 0
    THEN write_equations_pin_name_value(outputpin.name \o ".oe", 1, polarity)
            \o write_equations_newline
    ELSE write_equations_pin_name_value(outputpin.name \o ".oe", 0, polarity)
            \o write_equations_newline

(***************************************************************************)
(* The main program from line 1808 on: open the file, write its sections,  *)
(* close it.  The sections of the output pins are written pin by pin.      *)
(***************************************************************************)
DumpStem == "dump"

PalDeviceName == "PAL"

OpenEquations ==
    /\ pc = "open"
    /\ equations' = <<>>
    /\ pc' = "header"
    /\ UNCHANGED <<device, dumpdata, outputpins, eprom_address, ipidx, opidx,
                   args, error, today, simplified, load, previous>>

WriteHeader ==
    /\ pc = "header"
    /\ \E day \in 1..MaxDays :
          /\ today' = day
          /\ equations' = equations \o write_equations_file_header(DumpStem, PalDeviceName, day)
    /\ pc' = "aliases"
    /\ UNCHANGED <<device, dumpdata, outputpins, eprom_address, ipidx, opidx,
                   args, error, simplified, load, previous>>

WritePinAliases ==
    /\ pc = "aliases"
    /\ equations' = equations \o write_equations_pin_aliases(device, outputpins)
    /\ pc' = "outputs"
    /\ UNCHANGED <<device, dumpdata, outputpins, eprom_address, ipidx, opidx,
                   args, error, today, simplified, load, previous>>

\* the value of a command line option: the one given when the run started
ReadOption(given) == IF given = "unread" THEN Polarities ELSE {given}

\* lines 1552-1558, with args.polarity as given on the command line
BeginOutputEquations ==
    /\ pc = "outputs"
    /\ \E polarity \in ReadOption(args.polarity) :
          args' = [args EXCEPT !.polarity = polarity]
    /\ equations' = equations \o write_equations_section_title("Output equations")
    /\ opidx' = 1
    /\ pc' = "output"
    /\ UNCHANGED <<device, dumpdata, outputpins, eprom_address, ipidx, error, today,
                   simplified, load, previous>>

\* the end of an iteration of a writer's loop over the output pins
WrittenPin(lines, nextpc) ==
    /\ equations' = equations \o lines
    /\ error' = error
    /\ IF opidx < device.pal_output_pins
       THEN /\ opidx' = opidx + 1
            /\ pc' = pc
       ELSE /\ opidx' = 1
            /\ pc' = nextpc

RaisedTypeError ==
    /\ pc' = "failed"
    /\ error' = "TypeError"
    /\ UNCHANGED <<equations, opidx>>

\* both polarities are simplified, then the equations are written
SimplifyAndWrite(name, pinnames, posminterms, negminterms, dontcareterms, polarity, nextpc) ==
    LET askpos == Question(pinnames, posminterms, dontcareterms)
        askneg == Question(pinnames, negminterms, dontcareterms)
    IN \E pos \in simplify_minterms(simplified, askpos) :
         LET known == simplified \cup {[question |-> askpos, results |-> pos]}
         IN \E neg \in simplify_minterms(known, askneg) :
              LET written == WriteSimplified(name, pinnames, pos, neg, polarity)
              IN /\ simplified' = known \cup {[question |-> askneg, results |-> neg]}
                 /\ IF written.raised THEN RaisedTypeError
                    ELSE WrittenPin(written.lines, nextpc)

\* one iteration of the loop of write_equations_pin_output_equations
WriteOutputEquation ==
    /\ pc = "output"
    /\ LET outputpin == outputpins[opidx]
       IN IF outputpin.depends.bitmap = 0
          THEN /\ WrittenPin(WriteConstantOutput(outputpin, args.polarity), "enables")
               /\ UNCHANGED simplified
          ELSE SimplifyAndWrite(outputpin.name, outputpin.depends.pinnames,
                                outputpin.posminterms, outputpin.negminterms,
                                outputpin.dontcareterms, args.polarity, "enables")
    /\ UNCHANGED <<device, dumpdata, outputpins, eprom_address, ipidx, args, today, load,
                   previous>>

\* lines 1656-1662, with args.oepolarity as given on the command line
BeginOutputEnableEquations ==
    /\ pc = "enables"
    /\ \E polarity \in ReadOption(args.oepolarity) :
          args' = [args EXCEPT !.oepolarity = polarity]
    /\ equations' = equations \o write_equations_section_title("Output enable equations")
    /\ opidx' = 1
    /\ pc' = "enable"
    /\ UNCHANGED <<device, dumpdata, outputpins, eprom_address, ipidx, error, today,
                   simplified, load, previous>>

\* one iteration of the loop of write_equations_pin_output_enable_equations
WriteOutputEnableEquation ==
    /\ pc = "enable"
    /\ LET outputpin == outputpins[opidx]
       IN IF outputpin.oe_depends.bitmap = 0
          THEN /\ WrittenPin(WriteConstantEnable(outputpin, args.oepolarity), "close")
               /\ UNCHANGED simplified
          ELSE SimplifyAndWrite(outputpin.name \o ".oe", outputpin.oe_depends.pinnames,
                                outputpin.oeposminterms, outputpin.oenegminterms,
                                <<>>, args.oepolarity, "close")
    /\ UNCHANGED <<device, dumpdata, outputpins, eprom_address, ipidx, args, today, load,
                   previous>>

CloseEquations ==
    /\ pc = "close"
    /\ pc' = "done"
    /\ UNCHANGED <<device, dumpdata, outputpins, eprom_address, ipidx, opidx,
                   args, equations, error, today, simplified, load, previous>>

NextWrite ==
    \/ OpenEquations \/ WriteHeader \/ WritePinAliases
    \/ BeginOutputEquations \/ WriteOutputEquation
    \/ BeginOutputEnableEquations \/ WriteOutputEnableEquation
    \/ CloseEquations

Init == InitWith(MaxA, MaxD, MaxImageBits)

Next == NextAnalysis \/ NextWrite

Spec == Init /\ [][Next]_vars

\* the same program on larger images
MaxWideBits == 8

InitWide == InitWith(MaxA, MaxD, MaxWideBits)

SpecWide == InitWide /\ [][Next]_vars

(***************************************************************************)
(* A second run of the program on the same dump with the same command      *)
(* line: the file of the first run is kept for comparison.  The profile,   *)
(* the image and the arguments are those of the first run, and the         *)
(* minimizer gives the answers it gave before; the clock is read again.    *)
(***************************************************************************)
Rerun ==
    /\ pc = "done"
    /\ previous = NoPrevious
    /\ previous' = [equations |-> equations, today |-> today]
    /\ outputpins' = build_outputpins_configuration(device)
    /\ pc' = "scan"
    /\ eprom_address' = 0
    /\ ipidx' = 1
    /\ opidx' = 1
    /\ equations' = <<>>
    /\ today' = 0
    /\ UNCHANGED <<device, dumpdata, args, error, simplified, load>>

NextRerun == Next \/ Rerun

SpecRerun == Init /\ [][NextRerun]_vars

SecondRunDone == pc = "done" /\ previous # NoPrevious

(***************************************************************************)
(* The loading stage: select_device, then read_eprom_dump.  A profile of   *)
(* this stage has the fields the two functions read.  The dump file is a   *)
(* sequence of bytes; load.position is the position of the file object.    *)
(***************************************************************************)
MaxLoadA == 1

MaxFileBytes == 4

MaxByte == 1

MaxProfiles == 2

LoadDataWidths == {4, 8, 12, 16}

ProfileNames == <<"P1", "P2", "P3">>

LoadProfiles ==
    [eprom_address_width : 0..MaxLoadA, eprom_data_width : LoadDataWidths,
     eprom_endianness : {"little", "big"}]

\* the dict of device profiles, in insertion order: (name, profile) pairs
DeviceDicts ==
    UNION {{[i \in 1..n |-> [devicetype |-> ProfileNames[i], profile |-> ps[i]]] :
                ps \in [1..n -> LoadProfiles]} : n \in 1..MaxProfiles}

DumpFiles == UNION {[1..n -> 0..MaxByte] : n \in 0..MaxFileBytes}

NoDevice == [eprom_address_width |-> None, eprom_data_width |-> None,
             eprom_endianness |-> "none"]

InitLoad ==
    /\ load \in [devices : DeviceDicts,
                 devicetype : {"auto", "P1", "P2", "P3"},
                 file : DumpFiles, position : {0}, dataarray : {<<>>}]
    /\ device = NoDevice
    /\ dumpdata = <<>>
    /\ outputpins = <<>>
    /\ pc = "select"
    /\ eprom_address = 0
    /\ ipidx = 1
    /\ opidx = 1
    /\ args = NoArgs
    /\ equations = <<>>
    /\ error = "none"
    /\ today = 0
    /\ simplified = {}
    /\ previous = NoPrevious

\* int(device["eprom_data_width"] / 8)
DataBytes(profile) == profile.eprom_data_width \div 8

\* lines 268 and 334: (2 ** address width) * databytes
ExpectedFileSize(profile) == (2 ^ profile.eprom_address_width) * DataBytes(profile)

\* devices[devicetype] for a key of the dict
DeviceOfType(devices, devicetype) ==
    (CHOOSE i \in 1..Len(devices) : devices[i].devicetype = devicetype)

\* lines 260-286: the first profile, in the order of the dict, whose expected
\* file size is the size of the dump; 0 when there is none
FirstMatch(devices, dumpsize) ==
    LET hits == {i \in 1..Len(devices) : ExpectedFileSize(devices[i].profile) = dumpsize}
    IN IF hits = {} THEN 0 ELSE CHOOSE i \in hits : \A k \in hits : i <= k

select_device(devices, devicetype, dumpsize) ==
    IF devicetype # "auto"
    THEN IF ~\E i \in 1..Len(devices) : devices[i].devicetype = devicetype
         THEN [raised |-> TRUE, device |-> NoDevice]
         ELSE [raised |-> FALSE, device |-> devices[DeviceOfType(devices, devicetype)].profile]
    ELSE IF FirstMatch(devices, dumpsize) = 0
         THEN [raised |-> TRUE, device |-> NoDevice]
         ELSE [raised |-> FALSE, device |-> devices[FirstMatch(devices, dumpsize)].profile]

SelectDevice ==
    /\ pc = "select"
    /\ LET selected == select_device(load.devices, load.devicetype, Len(load.file))
       IN /\ device' = selected.device
          /\ IF selected.raised
             THEN pc' = "failed" /\ error' = "RuntimeError"
             ELSE pc' = "read" /\ error' = error
    /\ UNCHANGED <<dumpdata, outputpins, eprom_address, ipidx, opidx, args, equations,
                   today, simplified, load, previous>>

\* f.read(size): at most `size` bytes from the position on
FileRead(file, position, size) ==
    SubSeq(file, position + 1,
           IF position + size <= Len(file) THEN position + size ELSE Len(file))

RECURSIVE FromBigEndian(_)
FromBigEndian(data) ==
    IF data = <<>> THEN 0
    ELSE FromBigEndian(SubSeq(data, 1, Len(data) - 1)) * 256 + data[Len(data)]

RECURSIVE FromLittleEndian(_)
FromLittleEndian(data) ==
    IF data = <<>> THEN 0 ELSE Head(data) + 256 * FromLittleEndian(Tail(data))

\* int.from_bytes(data, byteorder)
IntFromBytes(data, byteorder) ==
    IF byteorder = "big" THEN FromBigEndian(data) ELSE FromLittleEndian(data)

\* one iteration of the loop of lines 318-322; the break leaves the loop
ReadData ==
    /\ pc = "read"
    /\ LET data == FileRead(load.file, load.position, DataBytes(device))
       IN IF data = <<>>
          THEN /\ pc' = "check"
               /\ load' = load
          ELSE /\ pc' = pc
               /\ load' = [load EXCEPT
                     !.position = @ + Len(data),
                     !.dataarray = Append(@, IntFromBytes(data, device.eprom_endianness))]
    /\ UNCHANGED <<device, dumpdata, outputpins, eprom_address, ipidx, opidx, args,
                   equations, error, today, simplified, previous>>

\* lines 334-343: the size check, then the return of the data array
CheckFileSize ==
    /\ pc = "check"
    /\ IF Len(load.dataarray) * DataBytes(device) # ExpectedFileSize(device)
       THEN /\ pc' = "failed"
            /\ error' = "RuntimeError"
            /\ dumpdata' = dumpdata
       ELSE /\ pc' = "loaded"
            /\ error' = error
            /\ dumpdata' = [a \in 0..(Len(load.dataarray) - 1) |-> load.dataarray[a + 1]]
    /\ UNCHANGED <<device, outputpins, eprom_address, ipidx, opidx, args, equations,
                   today, simplified, load, previous>>

NextLoad == SelectDevice \/ ReadData \/ CheckFileSize

SpecLoad == InitLoad /\ [][NextLoad]_vars

(***************************************************************************)
(* Properties of the minterm builder (SpecAnalysis).                       *)
(***************************************************************************)
OutputPinIndexes == 1..Len(outputpins)

DependencyCount(outputpin) == Len(outputpin.depends.bits)

\* the three lists are pairwise disjoint and together are 0 .. 2^k - 1
MintermsClosed(outputpin) ==
    LET positive == SeqToSet(outputpin.posminterms)
        negative == SeqToSet(outputpin.negminterms)
        dontcare == SeqToSet(outputpin.dontcareterms)
    IN /\ positive \cap negative = {}
       /\ positive \cap dontcare = {}
       /\ negative \cap dontcare = {}
       /\ positive \cup negative \cup dontcare = 0..(2 ^ DependencyCount(outputpin) - 1)

MintermsEmpty(outputpin) ==
    /\ outputpin.posminterms = <<>>
    /\ outputpin.negminterms = <<>>
    /\ outputpin.dontcareterms = <<>>

\* C1, as stated: after build_outputpins_equations has completed without
\* error, for every output pin, whatever the number k of its dependencies,
\* posminterms, negminterms and dontcareterms are pairwise disjoint and
\* their union is {0, ..., 2^k - 1}.
C1_ClosureOfEveryPin ==
    pc = "open" => \A j \in OutputPinIndexes : MintermsClosed(outputpins[j])

\* C1, amended: after build_outputpins_equations has completed without
\* error, the three lists of every output pin with at least one dependency
\* are pairwise disjoint and their union is {0, ..., 2^k - 1}; the three
\* lists of a pin without dependencies are empty (minterm 0 is in none).
C1_MintermClosure ==
    pc = "open" =>
        \A j \in OutputPinIndexes :
            IF DependencyCount(outputpins[j]) > 0
            THEN MintermsClosed(outputpins[j])
            ELSE MintermsEmpty(outputpins[j])

\* a built pin with two dependencies and minterms of all three kinds
C1_Witness ==
    /\ pc = "open"
    /\ \E j \in OutputPinIndexes :
          /\ DependencyCount(outputpins[j]) = 2
          /\ outputpins[j].posminterms # <<>>
          /\ outputpins[j].negminterms # <<>>
          /\ outputpins[j].dontcareterms # <<>>

\* the output pins whose dependencies build_outputpins_equations has sorted
SortedPinIndexes ==
    CASE pc = "scan" -> {}
      [] pc = "build" -> 1..(opidx - 1)
      [] pc = "failed" /\ error = "RuntimeError" /\ load = NoLoad -> 1..opidx
      [] OTHER -> OutputPinIndexes

RECURSIVE OrOfBits(_)
OrOfBits(bits) == IF bits = <<>> THEN 0 ELSE BitOr(Head(bits), OrOfBits(Tail(bits)))

DependenciesSorted(dep) ==
    /\ \A i \in 1..(Len(dep.bits) - 1) : dep.bits[i] < dep.bits[i + 1]
    /\ dep.bitmap = OrOfBits(dep.bits)
    /\ Len(dep.bits) = Len(dep.pinnames)
    /\ \A i \in 1..Len(dep.bits) :
          \E n \in 1..Len(inputpins) :
              /\ inputpins[n].bitmask = dep.bits[i]
              /\ inputpins[n].name = dep.pinnames[i]

\* C2: once the dependency scan and the sort at the start of
\* build_outputpins_equations have run for an output pin, for depends and
\* for oe_depends: bits is strictly ascending, bitmap is the bitwise OR of
\* bits, bits and pinnames have the same length, and pinnames[i] is the name
\* of the input pin whose mask is bits[i].
C2_SortedDependencies ==
    \A j \in SortedPinIndexes :
        /\ DependenciesSorted(outputpins[j].depends)
        /\ DependenciesSorted(outputpins[j].oe_depends)

\* a sorted pin with two dependencies and two output enable dependencies
C2_Witness ==
    /\ pc = "open"
    /\ \E j \in SortedPinIndexes :
          /\ Len(outputpins[j].depends.bits) >= 2
          /\ Len(outputpins[j].oe_depends.bits) >= 2

(***************************************************************************)
(* Properties of the writers (Spec, SpecWide, SpecRerun).                  *)
(***************************************************************************)
\* the number of products of a result; a literal has none
CoverSize(results) == Len(results.products)

\* the lines the claim expects under polarity auto for a pair of results
AutoLines(name, pinnames, pos, neg) ==
    IF IsBool(pos) \/ (~IsBool(neg) /\ CoverSize(pos) <= CoverSize(neg))
    THEN write_pin_equations(name, pinnames, pos, "positive") \o write_equations_newline
    ELSE write_pin_equations(name, pinnames, neg, "negative") \o write_equations_newline

\* the emitter completes for every pair of results and writes AutoLines
AutoCompletes(name, pinnames, posminterms, negminterms, dontcareterms) ==
    LET askpos == Question(pinnames, posminterms, dontcareterms)
        askneg == Question(pinnames, negminterms, dontcareterms)
    IN \A pos \in simplify_minterms(simplified, askpos) :
         \A neg \in simplify_minterms(
                       simplified \cup {[question |-> askpos, results |-> pos]}, askneg) :
            LET written == WriteSimplified(name, pinnames, pos, neg, "auto")
            IN /\ ~written.raised
               /\ written.lines = AutoLines(name, pinnames, pos, neg)

\* C3, as stated: for a pin with non-empty depends under polarity=auto (and
\* for a pin with non-empty oe_depends under oepolarity=auto), for every pair
\* of results the minimizer may return, the emitter completes and writes the
\* positive equation iff the positive result is a literal or its product list
\* is no longer than the negative one, and the negative equation otherwise.
C3_PolarityAuto ==
    /\ (pc = "output" /\ args.polarity = "auto" /\ outputpins[opidx].depends.bitmap # 0)
          => AutoCompletes(outputpins[opidx].name, outputpins[opidx].depends.pinnames,
                           outputpins[opidx].posminterms, outputpins[opidx].negminterms,
                           outputpins[opidx].dontcareterms)
    /\ (pc = "enable" /\ args.oepolarity = "auto" /\ outputpins[opidx].oe_depends.bitmap # 0)
          => AutoCompletes(outputpins[opidx].name \o ".oe",
                           outputpins[opidx].oe_depends.pinnames,
                           outputpins[opidx].oeposminterms, outputpins[opidx].oenegminterms,
                           <<>>)

\* the run has ended in the TypeError of len(simplified_terms_neg[0])
C3_TypeErrorRaised == pc = "failed" /\ error = "TypeError"

\* the index of the title line of a section, 0 when it is not written
TitleIndex(title) ==
    IF \E i \in 1..Len(equations) : equations[i] = <<"/* ", title, " */">>
    THEN CHOOSE i \in 1..Len(equations) : equations[i] = <<"/* ", title, " */">>
    ELSE 0

\* the lines written so far in the "Output equations" section
OutputEquationLines ==
    IF TitleIndex("Output equations") = 0 THEN {}
    ELSE {i \in (TitleIndex("Output equations") + 1)..Len(equations) :
            \/ TitleIndex("Output enable equations") = 0
            \/ i < TitleIndex("Output enable equations")}

\* the line is the first line of an equation of the pin, in either polarity
IsEquationOf(line, name) ==
    /\ Len(line) >= 2
    /\ line[1] \in {name, NOTSTR \o name}

NeverActive(outputpin) ==
    /\ outputpin.oe_depends.bitmap = 0
    /\ outputpin.seenlow = 0
    /\ outputpin.seenhigh = 0

\* C4: an output pin that after the analysis has oe_depends.bitmap = 0 and
\* was seen neither low nor high has no dependencies and gets no equation in
\* the "Output equations" section, whatever the polarity setting.
C4_HizInvariance ==
    pc # "scan" =>
        \A j \in OutputPinIndexes :
            NeverActive(outputpins[j]) =>
                /\ outputpins[j].depends.bitmap = 0
                /\ \A i \in OutputEquationLines :
                      ~IsEquationOf(equations[i], outputpins[j].name)

\* a finished file with the equation of one pin, beside a pin never active
C4_Witness ==
    /\ pc = "done"
    /\ \E j, k \in OutputPinIndexes :
          /\ NeverActive(outputpins[j])
          /\ \E i \in OutputEquationLines : IsEquationOf(equations[i], outputpins[k].name)

\* the bytes of a file: its lines as written
FileText(lines) == [i \in 1..Len(lines) |-> Text(lines[i])]

IsDateLine(line) == Len(line) = 3 /\ line[1] = "Date "

S1Device ==
    [eprom_address_width |-> 1, eprom_data_width |-> 1, eprom_hiz_probe_pins |-> 0,
     pal_output_pins |-> 1, eprom_address_pins |-> <<1>>, eprom_data_pins |-> <<11>>]

S1Image == [a \in 0..1 |-> a]

IsS1 == device = S1Device /\ dumpdata = S1Image

AnalysisDone == pc \notin {"scan", "build"}

\* a line with this text is in the "Output equations" section
OutputEquationWritten(text) ==
    \E i \in OutputEquationLines : Text(equations[i]) = text

\* the lines written so far in the "Output enable equations" section
OutputEnableLines ==
    IF TitleIndex("Output enable equations") = 0 THEN {}
    ELSE (TitleIndex("Output enable equations") + 1)..Len(equations)

OutputEnableWritten(text) ==
    \E i \in OutputEnableLines : Text(equations[i]) = text

\* C6, as stated: in scenario S1 (one input I, one output O without hi-z
\* probe, H = 0, image [0, 1]) the pipeline yields depends(O) = {I}, seen_low
\* and seen_high, minterm 1 positive, minterm 0 negative, no don't-care
\* minterm, and under polarity=auto the output equation "O = I;".
C6_IdentityBuffer ==
    IsS1 =>
        /\ AnalysisDone =>
              /\ outputpins[1].depends.pinnames = <<"A">>
              /\ outputpins[1].depends.bits = <<1>>
              /\ outputpins[1].seenlow = 1
              /\ outputpins[1].seenhigh = 1
              /\ outputpins[1].posminterms = <<1>>
              /\ outputpins[1].negminterms = <<0>>
              /\ outputpins[1].dontcareterms = <<>>
        /\ (pc = "done" /\ args.polarity = "auto") => OutputEquationWritten("X = A;")

\* scenario S1 has run to its end under polarity=auto: both minterms are
\* don't-care minterms and the equation written is that of a constant
C6_AllDontCare ==
    /\ IsS1
    /\ pc = "done"
    /\ args.polarity = "auto"
    /\ outputpins[1].depends.pinnames = <<"A">>
    /\ outputpins[1].posminterms = <<>>
    /\ outputpins[1].negminterms = <<>>
    /\ outputpins[1].dontcareterms = <<0, 1>>
    /\ OutputEquationWritten("X = 'b'0;") \/ OutputEquationWritten("X = 'b'1;")

S4Device ==
    [eprom_address_width |-> 2, eprom_data_width |-> 1, eprom_hiz_probe_pins |-> 0,
     pal_output_pins |-> 1, eprom_address_pins |-> <<1, 2>>, eprom_data_pins |-> <<11>>]

S4Image == [a \in 0..3 |-> IF a = 3 THEN 1 ELSE 0]

IsS4 == device = S4Device /\ dumpdata = S4Image

\* C7, as stated: in scenario S4 (inputs I0 and I1, one output O without
\* hi-z probe, H = 0, image [0, 0, 0, 1]) the pipeline yields
\* depends(O) = {I0, I1}, positive minterms {3}, negative minterms {0, 1, 2},
\* no don't-care minterm, and the positive cover handed to the emitter is
\* the single product I0 & I1.
C7_TwoInputAnd ==
    IsS4 =>
        /\ AnalysisDone =>
              /\ outputpins[1].depends.pinnames = <<"A", "B">>
              /\ outputpins[1].posminterms = <<3>>
              /\ outputpins[1].negminterms = <<0, 1, 2>>
              /\ outputpins[1].dontcareterms = <<>>
        /\ pc = "done" =>
              \E a \in simplified :
                  /\ a.question = [k |-> 2, on |-> {3}, dontcare |-> {}]
                  /\ a.results = ResultList(<< <<3, 3>> >>)

\* scenario S4 has run to its end: the four minterms are don't-care minterms
C7_AllDontCare ==
    /\ IsS4
    /\ pc = "done"
    /\ outputpins[1].depends.pinnames = <<"A", "B">>
    /\ outputpins[1].posminterms = <<>>
    /\ outputpins[1].negminterms = <<>>
    /\ outputpins[1].dontcareterms = <<0, 1, 2, 3>>

\* scenario S5: the single output is on pin 1, so address bit 0 is its probe
IsS5Device ==
    /\ device.eprom_address_width = 2
    /\ device.eprom_data_width = 1
    /\ device.pal_output_pins = 1
    /\ device.eprom_data_pins = <<1>>

\* O follows I1 when the probe bit is 0
FollowsI1 == dumpdata[0] = 0 /\ dumpdata[2] = 1

\* ... and reads as the probe drives it when the probe bit is 1
S5Image == [a \in 0..3 |-> IF a = 0 THEN 0 ELSE 1]

BothAuto == args.polarity = "auto" /\ args.oepolarity = "auto"

\* C8, as stated: in scenario S5 (address bit 0, I0, is the hi-z probe of
\* the single output O, bit 1 is input I1, and O follows I1 when the probe
\* bit is 0) the pipeline under auto polarity emits "O = I1;" and
\* "O.oe = !I0;": oe_depends(O) contains the probe input I0.
C8_HizControlled ==
    (IsS5Device /\ FollowsI1 /\ pc = "done" /\ BothAuto) =>
        /\ OutputEquationWritten("A = B;")
        /\ OutputEnableWritten("A.oe = !A;")
        /\ BitAnd(outputpins[1].oe_depends.bitmap, outputpins[1].hizprobebitmask) # 0

\* C8, amended: in scenario S5 the probe input I0 is never in oe_depends(O)
\* and no equation "O.oe = !I0;" is written; with the image [0, 1, 1, 1], in
\* which O follows I1 when the probe bit is 0 and reads high when the probe
\* bit is 1, depends(O) is empty, oe_depends(O) = {I1}, and the pipeline
\* under auto polarity emits "O = 'b'1;" and "O.oe = I1;".
C8_EnabledByI1 ==
    (IsS5Device /\ FollowsI1) =>
        /\ BitAnd(outputpins[1].oe_depends.bitmap, outputpins[1].hizprobebitmask) = 0
        /\ ~OutputEnableWritten("A.oe = !A;")
        /\ (dumpdata = S5Image /\ AnalysisDone) =>
              /\ outputpins[1].depends.bitmap = 0
              /\ outputpins[1].oe_depends.pinnames = <<"B">>
              /\ outputpins[1].oeposminterms = <<1>>
              /\ outputpins[1].oenegminterms = <<0>>
        /\ (dumpdata = S5Image /\ pc = "done" /\ BothAuto) =>
              /\ OutputEquationWritten("A = 'b'1;")
              /\ OutputEnableWritten("A.oe = B;")

\* scenario S5 with the image [0, 1, 1, 1] has run to its end under auto
C8_Witness ==
    /\ IsS5Device
    /\ device.eprom_hiz_probe_pins = 1
    /\ dumpdata = S5Image
    /\ pc = "done"
    /\ BothAuto
    /\ OutputEnableWritten("A.oe = B;")

(***************************************************************************)
(* Properties of the loading stage (SpecLoad).                             *)
(***************************************************************************)
\* the file size the specification gives a profile: 2^A * ceil(D / 8)
SpecifiedFileSize(profile) ==
    (2 ^ profile.eprom_address_width) * ((profile.eprom_data_width + 7) \div 8)

DeviceSelected == pc # "select" /\ device # NoDevice

SelectionFailed == pc = "failed" /\ device = NoDevice

ReadEnded == DeviceSelected /\ pc \in {"loaded", "failed"}

\* C9, as stated: read_eprom_dump ends in a fatal error whenever the length
\* of the dump file differs from 2^A * ceil(D / 8), for every data width D,
\* and returns an image of exactly 2^A words only when the length is that
\* value.
C9_ImageSizeCheck ==
    ReadEnded =>
        /\ Len(load.file) # SpecifiedFileSize(device) => pc = "failed"
        /\ pc = "loaded" =>
              /\ Len(load.file) = SpecifiedFileSize(device)
              /\ DOMAIN dumpdata = 0..(2 ^ device.eprom_address_width - 1)

\* a dump of 3 bytes is accepted for a profile with A = 1 and D = 16
C9_ShortFileLoaded ==
    /\ pc = "loaded"
    /\ device.eprom_address_width = 1
    /\ device.eprom_data_width = 16
    /\ Len(load.file) = 3
    /\ DOMAIN dumpdata = 0..1

ProfileIndexes == 1..Len(load.devices)

\* C10, as stated: with an explicit device type select_device returns the
\* profile of that name, or fails if no profile has it; with device type
\* auto it returns a profile whose 2^A * ceil(D / 8) is the size of the dump
\* file, and fails iff no loaded profile has that size.
C10_ProfileSelection ==
    pc # "select" =>
        IF load.devicetype # "auto"
        THEN /\ \A i \in ProfileIndexes :
                    load.devices[i].devicetype = load.devicetype =>
                        device = load.devices[i].profile
             /\ (\A i \in ProfileIndexes : load.devices[i].devicetype # load.devicetype)
                    => SelectionFailed
        ELSE /\ DeviceSelected =>
                    /\ \E i \in ProfileIndexes : device = load.devices[i].profile
                    /\ SpecifiedFileSize(device) = Len(load.file)
             /\ SelectionFailed <=>
                    \A i \in ProfileIndexes :
                        SpecifiedFileSize(load.devices[i].profile) # Len(load.file)

\* auto-selection fails on a dump of 4 bytes although the only profile has
\* A = 1 and D = 12
C10_NoMatchForTwelveBits ==
    /\ SelectionFailed
    /\ load.devicetype = "auto"
    /\ Len(load.devices) = 1
    /\ load.devices[1].profile.eprom_address_width = 1
    /\ load.devices[1].profile.eprom_data_width = 12
    /\ Len(load.file) = 4


\* ---------------------------------------------------------------------------
\* C11. No partial result: whenever a run has ended in a fatal error raised
\* after the image was loaded (pc = "failed"), nothing has been written to the
\* equations file; an equations file with content exists only for runs that
\* complete every stage.
FatalError == pc = "failed"

C11_NoPartialResult == FatalError => equations = <<>>

\* the run failed in the polarity selection of lines 1624 and 1725, after the
\* header, the pin aliases and a section title had been written to the file
C11_PartialFile ==
    /\ FatalError
    /\ error = "TypeError"
    /\ Len(equations) > Len(write_equations_file_header(DumpStem, PalDeviceName, today))

\* ---------------------------------------------------------------------------
\* the lines of the "Output equations" section, in the order written
OutputSection ==
    IF TitleIndex("Output equations") = 0 THEN <<>>
    ELSE SubSeq(equations, TitleIndex("Output equations") + 1,
                IF TitleIndex("Output enable equations") = 0 THEN Len(equations)
                ELSE TitleIndex("Output enable equations") - 1)

\* the lines of the "Output enable equations" section, in the order written
OutputEnableSection ==
    IF TitleIndex("Output enable equations") = 0 THEN <<>>
    ELSE SubSeq(equations, TitleIndex("Output enable equations") + 1, Len(equations))

\* the texts of the first lines of the equations of a pin in a section
EquationsOf(section, name) ==
    LET first == SelectSeq(section, LAMBDA line : IsEquationOf(line, name))
    IN [i \in 1..Len(first) |-> Text(first[i])]

\* the writer of the "Output equations" section has handled every pin
OutputSectionWritten == pc \in {"enables", "enable", "close", "done"}

\* the writer of the "Output enable equations" section has handled every pin
OutputEnableSectionWritten == pc \in {"close", "done"}

IsConstantPin(outputpin) == outputpin.depends.bitmap = 0

\* C12, as stated: for every output pin with depends.bitmap = 0 the written
\* "Output equations" section contains "name = 'b'1;" if seen_high is set,
\* otherwise "name = 'b'0;" if seen_low is set, otherwise no equation of the
\* pin at all.
C12_ConstantOutput ==
    OutputSectionWritten =>
        \A j \in OutputPinIndexes :
            IsConstantPin(outputpins[j]) =>
                IF outputpins[j].seenhigh # 0
                THEN OutputEquationWritten(outputpins[j].name \o " = 'b'1;")
                ELSE IF outputpins[j].seenlow # 0
                THEN OutputEquationWritten(outputpins[j].name \o " = 'b'0;")
                ELSE EquationsOf(OutputSection, outputpins[j].name) = <<>>

\* the equations of a constant of the given value under a polarity setting
ConstantTexts(name, value, polarity) ==
    LET positive == name \o " = 'b'" \o ToString(value) \o ";"
        negative == "!" \o name \o " = 'b'" \o ToString(1 - value) \o ";"
    IN CASE polarity \in {"auto", "positive"} -> <<positive>>
         [] polarity = "negative" -> <<negative>>
         [] polarity = "both" -> <<positive, negative>>

\* C12, amended: for every output pin with depends.bitmap = 0 the written
\* "Output equations" section holds, as the only equations of the pin, the
\* constant 1 if seen_high is set, otherwise the constant 0 if seen_low is
\* set, otherwise nothing; the constant v is written "name = 'b'v;" under
\* polarity positive and auto, "!name = 'b'(1-v);" under negative, and both
\* lines in that order under both.
C12_ConstantOutputByPolarity ==
    OutputSectionWritten =>
        \A j \in OutputPinIndexes :
            IsConstantPin(outputpins[j]) =>
                EquationsOf(OutputSection, outputpins[j].name) =
                    IF outputpins[j].seenhigh # 0
                    THEN ConstantTexts(outputpins[j].name, 1, args.polarity)
                    ELSE IF outputpins[j].seenlow # 0
                    THEN ConstantTexts(outputpins[j].name, 0, args.polarity)
                    ELSE <<>>

\* a finished file under polarity negative with a constant pin seen high and
\* a constant pin seen low only
C12_Witness ==
    /\ pc = "done"
    /\ args.polarity = "negative"
    /\ \E j, k \in OutputPinIndexes :
          /\ IsConstantPin(outputpins[j]) /\ IsConstantPin(outputpins[k])
          /\ outputpins[j].seenhigh # 0
          /\ outputpins[k].seenhigh = 0 /\ outputpins[k].seenlow # 0

\* ---------------------------------------------------------------------------
\* the pin has an output enable dependency or was observed driven
HasEnableOrActive(outputpin) ==
    \/ outputpin.oe_depends.bitmap # 0
    \/ outputpin.seenhigh # 0
    \/ outputpin.seenlow # 0

EnableEquationsOf(outputpin) == EquationsOf(OutputEnableSection, outputpin.name \o ".oe")

\* C13, as stated: the written "Output enable equations" section contains a
\* ".oe" equation of an output pin if and only if the pin has a non-empty
\* oe_depends or was seen high or low.
C13_EnableMembership ==
    OutputEnableSectionWritten =>
        \A j \in OutputPinIndexes :
            EnableEquationsOf(outputpins[j]) # <<>> <=> HasEnableOrActive(outputpins[j])

\* C13, amended: the written "Output enable equations" section contains a
\* ".oe" equation of every output pin; a pin with no output enable dependency
\* that was never seen driven has one too, and no pin has one before the
\* section is begun.
C13_EveryPinHasEnable ==
    /\ OutputEnableSectionWritten =>
          \A j \in OutputPinIndexes : EnableEquationsOf(outputpins[j]) # <<>>
    /\ pc \in {"outputs", "output", "enables"} =>
          \A j \in OutputPinIndexes : EnableEquationsOf(outputpins[j]) = <<>>

\* a finished file for a pin never seen driven beside a pin seen driven
C13_Witness ==
    /\ pc = "done"
    /\ \E j, k \in OutputPinIndexes :
          /\ ~HasEnableOrActive(outputpins[j])
          /\ HasEnableOrActive(outputpins[k])
          /\ EnableEquationsOf(outputpins[j]) # <<>>

\* ---------------------------------------------------------------------------
\* C14. Constant output enable emission: for every output pin with
\* oe_depends.bitmap = 0 the equation written in the "Output enable equations"
\* section is "name.oe = 'b'1;" when seen_high or seen_low is set and
\* "name.oe = 'b'0;" otherwise, in the positive form under oepolarity positive
\* and auto, in the complemented form "!name.oe" with the opposite constant
\* under negative, and in both forms under both.
C14_ConstantEnable ==
    OutputEnableSectionWritten =>
        \A j \in OutputPinIndexes :
            outputpins[j].oe_depends.bitmap = 0 =>
                EnableEquationsOf(outputpins[j]) =
                    IF outputpins[j].seenhigh # 0 \/ outputpins[j].seenlow # 0
                    THEN ConstantTexts(outputpins[j].name \o ".oe", 1, args.oepolarity)
                    ELSE ConstantTexts(outputpins[j].name \o ".oe", 0, args.oepolarity)

\* a finished file under oepolarity negative with "!name.oe = 'b'0;" for a
\* pin seen driven and "!name.oe = 'b'1;" for a pin never seen driven
C14_Witness ==
    /\ pc = "done"
    /\ args.oepolarity = "negative"
    /\ \E j, k \in OutputPinIndexes :
          /\ outputpins[j].oe_depends.bitmap = 0 /\ outputpins[k].oe_depends.bitmap = 0
          /\ outputpins[j].seenlow # 0
          /\ outputpins[k].seenhigh = 0 /\ outputpins[k].seenlow = 0
          /\ OutputEnableWritten("!" \o outputpins[j].name \o ".oe = 'b'0;")
          /\ OutputEnableWritten("!" \o outputpins[k].name \o ".oe = 'b'1;")

\* ---------------------------------------------------------------------------
\* the left-hand sides of the equations of a pin in a section, in order
LeftSides(section, name) ==
    LET first == SelectSeq(section, LAMBDA line : IsEquationOf(line, name))
    IN [i \in 1..Len(first) |-> first[i][1]]

ExpectedLeftSides(name, polarity) ==
    CASE polarity = "positive" -> <<name>>
      [] polarity = "negative" -> <<"!" \o name>>
      [] polarity = "both" -> <<name, "!" \o name>>

\* the lines are written one after the other in the section
WrittenTogether(section, lines) ==
    \E start \in 0..(Len(section) - Len(lines)) :
        SubSeq(section, start + 1, start + Len(lines)) = lines

\* the equation in the given polarity is the one of a result the minimizer
\* returned for these minterms
EquationFrom(section, name, pinnames, minterms, dontcareminterms, polarity) ==
    \E answer \in simplified :
        /\ answer.question = Question(pinnames, minterms, dontcareminterms)
        /\ WrittenTogether(section,
                           write_pin_equations(name, pinnames, answer.results, polarity))

\* the claim for one pin name in one section
PolarityModeOf(section, name, polarity, dependencies, pos, neg, dontcare) ==
    (LeftSides(section, name) # <<>> /\ polarity # "auto") =>
        /\ LeftSides(section, name) = ExpectedLeftSides(name, polarity)
        /\ (dependencies.bitmap # 0 /\ polarity \in {"negative", "both"}) =>
              EquationFrom(section, name, dependencies.pinnames, neg, dontcare, "negative")
        /\ (dependencies.bitmap # 0 /\ polarity \in {"positive", "both"}) =>
              EquationFrom(section, name, dependencies.pinnames, pos, dontcare, "positive")
        /\ (dependencies.bitmap = 0 /\ polarity = "negative") =>
              \E value \in {0, 1} :
                  EquationsOf(section, name) = ConstantTexts(name, value, "negative")

\* C15. Polarity modes: for every output pin that gets an output equation,
\* mode positive writes exactly one equation with left-hand side "name", mode
\* negative exactly one with left-hand side "!name", built from the negative
\* minterms or the complemented constant, and mode both exactly two, the
\* positive one first and the "!name" one second; the same holds for the
\* ".oe" equations under oepolarity.
C15_PolarityModes ==
    /\ OutputSectionWritten =>
          \A j \in OutputPinIndexes :
              PolarityModeOf(OutputSection, outputpins[j].name, args.polarity,
                             outputpins[j].depends, outputpins[j].posminterms,
                             outputpins[j].negminterms, outputpins[j].dontcareterms)
    /\ OutputEnableSectionWritten =>
          \A j \in OutputPinIndexes :
              PolarityModeOf(OutputEnableSection, outputpins[j].name \o ".oe",
                             args.oepolarity, outputpins[j].oe_depends,
                             outputpins[j].oeposminterms, outputpins[j].oenegminterms, <<>>)

\* a finished file under polarity both and oepolarity negative for a pin with
\* dependencies, its two output equations written
C15_Witness ==
    /\ pc = "done"
    /\ args.polarity = "both"
    /\ args.oepolarity = "negative"
    /\ \E j \in OutputPinIndexes :
          /\ outputpins[j].depends.bitmap # 0
          /\ outputpins[j].posminterms # <<>>
          /\ outputpins[j].negminterms # <<>>
          /\ LeftSides(OutputSection, outputpins[j].name)
                = <<outputpins[j].name, "!" \o outputpins[j].name>>
          /\ LeftSides(OutputEnableSection, outputpins[j].name \o ".oe")
                = <<"!" \o outputpins[j].name \o ".oe">>

\* ---------------------------------------------------------------------------
\* the annotation written for a pin in the "Pin mappings" section
AnnotationOf(outputpin) ==
    LET line == CHOOSE line \in SeqToSet(equations) :
                    /\ Len(line) = 7
                    /\ line[1] = "pin "
                    /\ line[2] = ToString(outputpin.number)
    IN line[6]

WithOutputEnable ==
    {"Fixed high output w/ output enable", "Fixed low output w/ output enable",
     "Combinatorial output w/ output enable"}

\* the annotation without its suffix
KindOf(annotation) ==
    CASE annotation \in {"Fixed high output", "Fixed high output w/ output enable"}
            -> "Fixed high output"
      [] annotation \in {"Fixed low output", "Fixed low output w/ output enable"}
            -> "Fixed low output"
      [] annotation \in {"Combinatorial output", "Combinatorial output w/ output enable"}
            -> "Combinatorial output"
      [] OTHER -> annotation

OutputEquationsOf(outputpin) == EquationsOf(OutputSection, outputpin.name)

\* C16, as stated: for every output pin, the annotation of the pin mapping is
\* "Fixed high output" iff its output equation is the constant 1, "Fixed low
\* output" iff it is the constant 0, "Input" iff the pin has no output
\* equation, "Combinatorial output" iff the equation is minimized from a
\* non-empty depends; the suffix "w/ output enable" is there iff oe_depends is
\* non-empty; a pin with empty depends, non-empty oe_depends and seen_low
\* unset is annotated "Fixed high output w/ output enable" and gets the
\* constant 1.
C16_AnnotationAgrees ==
    OutputSectionWritten =>
        \A j \in OutputPinIndexes :
            LET outputpin == outputpins[j]
                annotation == AnnotationOf(outputpin)
                written == OutputEquationsOf(outputpin)
                high == ConstantTexts(outputpin.name, 1, args.polarity)
                low == ConstantTexts(outputpin.name, 0, args.polarity)
            IN /\ KindOf(annotation) = "Fixed high output" <=> written = high
               /\ KindOf(annotation) = "Fixed low output" <=> written = low
               /\ KindOf(annotation) = "Input" <=> written = <<>>
               /\ KindOf(annotation) = "Combinatorial output"
                     <=> (outputpin.depends.bitmap # 0 /\ written # <<>>)
               /\ annotation \in WithOutputEnable <=> outputpin.oe_depends.bitmap # 0
               /\ (/\ outputpin.depends.bitmap = 0
                   /\ outputpin.oe_depends.bitmap # 0
                   /\ outputpin.seenlow = 0)
                     => /\ annotation = "Fixed high output w/ output enable"
                        /\ written = high

\* C16, amended: the annotation follows the analysis of the pin: it is "Fixed
\* high output" iff depends is empty and the output equation is the constant
\* 1, "Fixed low output" iff depends is empty and the output equation is the
\* constant 0, "Input" iff the pin has no output equation, "Combinatorial
\* output" iff depends is non-empty, whatever the minimizer made of the
\* equation; the suffix and the case of the pin never seen low are as stated.
C16_AnnotationFollowsAnalysis ==
    OutputSectionWritten =>
        \A j \in OutputPinIndexes :
            LET outputpin == outputpins[j]
                annotation == AnnotationOf(outputpin)
                written == OutputEquationsOf(outputpin)
                high == ConstantTexts(outputpin.name, 1, args.polarity)
                low == ConstantTexts(outputpin.name, 0, args.polarity)
            IN /\ KindOf(annotation) = "Fixed high output"
                     <=> (outputpin.depends.bitmap = 0 /\ written = high)
               /\ KindOf(annotation) = "Fixed low output"
                     <=> (outputpin.depends.bitmap = 0 /\ written = low)
               /\ KindOf(annotation) = "Input" <=> written = <<>>
               /\ KindOf(annotation) = "Combinatorial output"
                     <=> (outputpin.depends.bitmap # 0 /\ written # <<>>)
               /\ annotation \in WithOutputEnable <=> outputpin.oe_depends.bitmap # 0
               /\ (/\ outputpin.depends.bitmap = 0
                   /\ outputpin.oe_depends.bitmap # 0
                   /\ outputpin.seenlow = 0)
                     => /\ annotation = "Fixed high output w/ output enable"
                        /\ written = high

\* a finished file for a pin with empty depends, non-empty oe_depends and
\* never seen low, annotated as a fixed high output with output enable
C16_Witness ==
    /\ pc = "done"
    /\ \E j \in OutputPinIndexes :
          /\ outputpins[j].depends.bitmap = 0
          /\ outputpins[j].oe_depends.bitmap # 0
          /\ outputpins[j].seenlow = 0
          /\ AnnotationOf(outputpins[j]) = "Fixed high output w/ output enable"

\* ---------------------------------------------------------------------------
\* the masks over the address bits of the device: every mask the analysis
\* hands to iterate_mask is one of them
AddressMasks == 0..(2 ^ device.eprom_address_width - 1)

\* the sub-mask after x in the ascending enumeration of the sub-masks of mask
NextSubMask(x, mask) == BitAnd((x - mask) % (2 ^ device.eprom_address_width), mask)

RECURSIVE SubMasksFrom(_, _)
SubMasksFrom(x, mask) ==
    <<x>> \o (IF NextSubMask(x, mask) = 0 THEN <<>>
              ELSE SubMasksFrom(NextSubMask(x, mask), mask))

PopCount(mask) == Len(MaskBits(mask, 1))

\* the masks iterate_mask is called with for a pin: lines 849 and 940
IteratedMasks(outputpin) ==
    {BitAnd(BitXor(2 ^ device.eprom_address_width - 1, outputpin.depends.bitmap),
            hiz_input_mask(device)),
     outputpin.oe_depends.bitmap}

\* C17. Sub-mask iteration: for every bitmap M >= 0 over the address bits,
\* iterate_mask(M) yields exactly the integers whose 1-bits are a subset of
\* the 1-bits of M, each once, in strictly ascending order, 2^popcount(M)
\* values in all (the single value 0 for M = 0): the sequence of the
\* enumeration x' = (x - M) & M that starts at 0.
C17_SubMaskIteration ==
    \A mask \in AddressMasks :
        LET yielded == iterate_mask(mask)
        IN /\ yielded = SubMasksFrom(0, mask)
           /\ Len(yielded) = 2 ^ PopCount(mask)
           /\ SeqToSet(yielded) = {x \in AddressMasks : BitAnd(x, mask) = x}
           /\ \A i \in 1..(Len(yielded) - 1) : yielded[i] < yielded[i + 1]

\* the equations of a pin were built with iterate_mask called on the mask 0,
\* for a pin with dependencies: none of its minterms was found relevant
C17_IteratedEmptyMask ==
    /\ pc = "open"
    /\ \E j \in OutputPinIndexes :
          /\ outputpins[j].depends.bitmap # 0
          /\ IteratedMasks(outputpins[j]) = {0}
          /\ iterate_mask(0) = <<>>
          /\ Len(outputpins[j].dontcareterms) = 2 ^ Len(outputpins[j].depends.bits)

\* ---------------------------------------------------------------------------
IsAscending(bits) == \A i \in 1..(Len(bits) - 1) : bits[i] < bits[i + 1]

SubMasksOf(mask) == {s \in AddressMasks : BitAnd(s, mask) = s}

\* the claim for one dependency set
MintermEncodingOf(dependencies) ==
    LET k == Len(dependencies.bits)
        yielded == iterate_mask(dependencies.bitmap)
    IN /\ \A s \in AddressMasks :
             LET minterm == build_outputpin_minterm(dependencies, s)
             IN /\ minterm \in 0..(2 ^ k - 1)
                /\ \A i \in 1..k :
                      BitAnd(minterm, 2 ^ (i - 1)) # 0 <=> BitAnd(s, dependencies.bits[i]) # 0
       /\ {build_outputpin_minterm(dependencies, s) : s \in SubMasksOf(dependencies.bitmap)}
             = 0..(2 ^ k - 1)
       /\ \A s, t \in SubMasksOf(dependencies.bitmap) :
             build_outputpin_minterm(dependencies, s) = build_outputpin_minterm(dependencies, t)
                => s = t
       /\ \A n \in 1..Len(yielded) :
             build_outputpin_minterm(dependencies, yielded[n]) = n - 1

\* C18. Minterm encoding: for a dependency set whose k bit masks are sorted
\* ascending, build_outputpin_minterm(deps, s) is the k-bit integer whose bit
\* i is 1 iff the i-th dependency mask is set in s; it is a bijection from the
\* sub-masks of deps.bitmap onto 0..2^k-1, and the n-th value that
\* iterate_mask(deps.bitmap) yields, counted from 0, is encoded as n.
C18_MintermEncoding ==
    \A j \in OutputPinIndexes :
        \A dependencies \in {outputpins[j].depends, outputpins[j].oe_depends} :
            IsAscending(dependencies.bits) => MintermEncodingOf(dependencies)

\* the equations were built for a pin whose two dependencies are not on
\* neighbouring address bits: the addresses 0, 1, 4 and 5 were recorded as
\* the minterms 0, 1, 2 and 3
C18_Witness ==
    /\ pc = "open"
    /\ \E j \in OutputPinIndexes :
          /\ outputpins[j].depends.bits = <<1, 4>>
          /\ iterate_mask(outputpins[j].depends.bitmap) = <<0, 1, 4, 5>>
          /\ outputpins[j].negminterms \o outputpins[j].posminterms
                \o outputpins[j].dontcareterms = <<0, 1, 2, 3>>


\* ---------------------------------------------------------------------------
\* the sub-mask of the probe settings of a pin: the hi-z probe address bits
\* the pin does not depend on
ProbeMask(outputpin) ==
    BitAnd(BitXor(2 ^ device.eprom_address_width - 1, outputpin.depends.bitmap),
           hiz_input_mask(device))

\* at the address the probe bits, moved down to bit 0, equal the data word
\* without its bits above the hi-z probe pins
ProbeMatches(addr) ==
    ShiftRight(BitAnd(addr, hiz_input_mask(device)),
               device.eprom_address_width - device.eprom_hiz_probe_pins)
        = BitAnd(dumpdata[addr], 2 ^ device.eprom_hiz_probe_pins - 1)

\* C19. Relevance test: check_input_combination_is_relevent(op, addr) is true
\* iff there is a probe setting p among the sub-masks of
\* ~op.depends.bitmap & hiz_input_mask, p = 0 being one of them, such that
\* ((addr | p) & hiz_input_mask) >> (A - H) equals
\* image[addr | p] & ~hiz_data_mask; this for every H in 0..A, also when the
\* sub-mask iterated is 0.
C19_Relevance ==
    \A j \in OutputPinIndexes :
        \A addr \in AddressMasks :
            check_input_combination_is_relevent(device, dumpdata, outputpins[j], addr)
                <=> \E p \in SubMasksOf(ProbeMask(outputpins[j])) :
                        ProbeMatches(BitOr(addr, p))

\* the equations were built for a pin with dependencies whose probe mask is
\* 0: a combination was recorded as don't-care although the probe setting 0
\* matches at its address
C19_DontCareAlthoughMatching ==
    /\ pc = "open"
    /\ \E j \in OutputPinIndexes :
          /\ outputpins[j].depends.bitmap # 0
          /\ ProbeMask(outputpins[j]) = 0
          /\ \E addr \in SubMasksOf(outputpins[j].depends.bitmap) :
                /\ ProbeMatches(addr)
                /\ SeqContains(outputpins[j].dontcareterms,
                               build_outputpin_minterm(outputpins[j].depends, addr))

\* ---------------------------------------------------------------------------
\* the bit of the pin is unchanged by toggling the probe of the pin
UnchangedByProbe(outputpin, addr) ==
    BitAnd(dumpdata[addr], outputpin.bitmask)
        = BitAnd(dumpdata[BitXor(addr, outputpin.hizprobebitmask)], outputpin.bitmask)

\* the sub-masks of oe_depends.bitmap at which the pin is driven
DrivenSubMasks(outputpin, addr) ==
    {s \in SubMasksOf(outputpin.oe_depends.bitmap) :
        UnchangedByProbe(outputpin, BitOr(addr, s))}

Least(S) == CHOOSE x \in S : \A y \in S : x <= y

\* the combinations of a pin with dependencies that are relevant and have no
\* driven address
NoDriveCombinations(outputpin) ==
    {addr \in SubMasksOf(outputpin.depends.bitmap) :
        /\ outputpin.depends.bitmap # 0
        /\ check_input_combination_is_relevent(device, dumpdata, outputpin, addr)
        /\ ~UnchangedByProbe(outputpin, addr)
        /\ DrivenSubMasks(outputpin, addr) = {}}

Recorded(outputpin, minterm) ==
    \/ SeqContains(outputpin.posminterms, minterm)
    \/ SeqContains(outputpin.negminterms, minterm)
    \/ SeqContains(outputpin.dontcareterms, minterm)

\* C20. Effective output value: get_output_pin_data returns image[addr] when
\* the bit of the pin is unchanged by toggling its probe at addr; otherwise
\* image[addr | s] for the first sub-mask s of oe_depends.bitmap, in ascending
\* order, at which the bit is unchanged by toggling the probe; it raises the
\* error iff the pin is hi-z at addr and at addr | s for every such s, and
\* then the run has failed with no minterm recorded for the combination.
C20_EffectiveOutputValue ==
    /\ \A j \in OutputPinIndexes :
          \A addr \in AddressMasks :
              LET got == get_output_pin_data(dumpdata, outputpins[j], addr)
                  driven == DrivenSubMasks(outputpins[j], addr)
              IN IF UnchangedByProbe(outputpins[j], addr)
                 THEN ~got.raised /\ got.data = dumpdata[addr]
                 ELSE IF driven # {}
                 THEN ~got.raised /\ got.data = dumpdata[BitOr(addr, Least(driven))]
                 ELSE got.raised
    /\ (pc = "failed" /\ error = "RuntimeError") =>
          /\ NoDriveCombinations(outputpins[opidx]) # {}
          /\ ~Recorded(outputpins[opidx],
                       build_outputpin_minterm(outputpins[opidx].depends,
                                               Least(NoDriveCombinations(outputpins[opidx]))))
    /\ pc = "open" =>
          \A j \in OutputPinIndexes : NoDriveCombinations(outputpins[j]) = {}

\* the run failed on a combination of a pin with output enable dependencies:
\* the pin is hi-z at the address and at every address the search visits
C20_Witness ==
    /\ pc = "failed"
    /\ error = "RuntimeError"
    /\ outputpins[opidx].oe_depends.bitmap # 0
    /\ \E addr \in NoDriveCombinations(outputpins[opidx]) :
          \A s \in SubMasksOf(outputpins[opidx].oe_depends.bitmap) :
              ~UnchangedByProbe(outputpins[opidx], BitOr(addr, s))

\* ---------------------------------------------------------------------------
EnableCount(outputpin) == Len(outputpin.oe_depends.bits)

\* C21. Output enable classification: once the equations of every pin are
\* built, for every output pin with non-empty oe_depends, oeposminterms and
\* oenegminterms are disjoint and together are 0 .. 2^|oe_depends| - 1, each
\* minterm recorded once; the minterm of a sub-mask addr of oe_depends.bitmap
\* is positive iff the bit of the pin at addr equals its bit at addr with the
\* probe toggled, and negative otherwise: no minterm is left out as a
\* don't-care.
C21_EnableClassification ==
    pc = "open" =>
        \A j \in OutputPinIndexes :
            outputpins[j].oe_depends.bitmap # 0 =>
                LET positive == SeqToSet(outputpins[j].oeposminterms)
                    negative == SeqToSet(outputpins[j].oenegminterms)
                IN /\ positive \cap negative = {}
                   /\ positive \cup negative = 0..(2 ^ EnableCount(outputpins[j]) - 1)
                   /\ Len(outputpins[j].oeposminterms) + Len(outputpins[j].oenegminterms)
                         = 2 ^ EnableCount(outputpins[j])
                   /\ \A addr \in SubMasksOf(outputpins[j].oe_depends.bitmap) :
                         LET minterm == build_outputpin_minterm(outputpins[j].oe_depends, addr)
                         IN /\ minterm \in positive <=> UnchangedByProbe(outputpins[j], addr)
                            /\ minterm \in negative <=> ~UnchangedByProbe(outputpins[j], addr)

\* a built pin with two output enable dependencies, enabled for some of the
\* four combinations and disabled for the others
C21_Witness ==
    /\ pc = "open"
    /\ \E j \in OutputPinIndexes :
          /\ EnableCount(outputpins[j]) = 2
          /\ outputpins[j].oeposminterms # <<>>
          /\ outputpins[j].oenegminterms # <<>>

\* ---------------------------------------------------------------------------
ScanDone == pc # "scan"

InputPinIndexes == 1..Len(inputpins)

\* the bit of the output pin in the data word at the address
BitAt(outputpin, addr) == BitAnd(dumpdata[addr], outputpin.bitmask)

HasProbe(outputpin) == outputpin.hizprobebitpos # None

\* the pin has a probe and its bit changes when the probe is toggled
HizAt(outputpin, addr) ==
    /\ HasProbe(outputpin)
    /\ BitAt(outputpin, addr) # BitAt(outputpin, BitXor(addr, outputpin.hizprobebitmask))

\* the pairs of addresses the scan compares for an input pin and an output
\* pin: the input bit clear in a, the probe bit of the output clear in both
ComparedAddresses(outputpin, inputpin) ==
    {a \in AddressMasks :
        /\ BitAnd(a, inputpin.bitmask) = 0
        /\ BitAnd(a, outputpin.hizprobebitmask) = 0
        /\ BitAnd(BitOr(a, inputpin.bitmask), outputpin.hizprobebitmask) = 0}

InDependencies(dependencies, inputpin) ==
    /\ SeqContains(dependencies.bits, inputpin.bitmask)
    /\ SeqContains(dependencies.pinnames, inputpin.name)
    /\ BitAnd(dependencies.bitmap, inputpin.bitmask) # 0

NotInDependencies(dependencies, inputpin) ==
    /\ ~SeqContains(dependencies.bits, inputpin.bitmask)
    /\ ~SeqContains(dependencies.pinnames, inputpin.name)
    /\ BitAnd(dependencies.bitmap, inputpin.bitmask) = 0

\* C22. Value dependencies, sound and complete: after the scan, input pin ip
\* is in op.depends if and only if there is an address a with ip's bit clear
\* such that op's probe bit is clear in a and in a | ip.mask, op is hi-z at
\* neither address, and op's bit differs between image[a] and
\* image[a | ip.mask].
C22_ValueDependencies ==
    ScanDone =>
        \A j \in OutputPinIndexes :
            \A i \in InputPinIndexes :
                IF \E a \in ComparedAddresses(outputpins[j], inputpins[i]) :
                      /\ ~HizAt(outputpins[j], a)
                      /\ ~HizAt(outputpins[j], BitOr(a, inputpins[i].bitmask))
                      /\ BitAt(outputpins[j], a)
                            # BitAt(outputpins[j], BitOr(a, inputpins[i].bitmask))
                THEN InDependencies(outputpins[j].depends, inputpins[i])
                ELSE NotInDependencies(outputpins[j].depends, inputpins[i])

\* after the scan a pin with a probe depends on one input and not on
\* another, though its bit differs between two addresses compared for that
\* other input: the pin is hi-z at one of them
C22_Witness ==
    /\ ScanDone
    /\ \E j \in OutputPinIndexes :
          \E i, k \in InputPinIndexes :
              /\ HasProbe(outputpins[j])
              /\ InDependencies(outputpins[j].depends, inputpins[i])
              /\ NotInDependencies(outputpins[j].depends, inputpins[k])
              /\ \E a \in ComparedAddresses(outputpins[j], inputpins[k]) :
                    BitAt(outputpins[j], a)
                        # BitAt(outputpins[j], BitOr(a, inputpins[k].bitmask))

\* ---------------------------------------------------------------------------
\* how many times x is in the sequence
Occurrences(s, x) == Cardinality({n \in 1..Len(s) : s[n] = x})

\* the addresses compared for the input pin at which the output pin is hi-z
\* at exactly one address of the pair
EnableWitnesses(outputpin, inputpin) ==
    {a \in ComparedAddresses(outputpin, inputpin) :
        HizAt(outputpin, a) # HizAt(outputpin, BitOr(a, inputpin.bitmask))}

\* C23. Output enable dependencies, sound and complete: after the scan, input
\* pin ip is in op.oe_depends if and only if op has a hi-z probe and there is
\* an address a, with ip's bit clear and op's probe bit clear in a and in
\* a | ip.mask, such that op is hi-z at exactly one of a and a | ip.mask; each
\* such input pin is recorded exactly once, however many addresses show it.
C23_EnableDependencies ==
    ScanDone =>
        \A j \in OutputPinIndexes :
            \A i \in InputPinIndexes :
                IF HasProbe(outputpins[j])
                      /\ EnableWitnesses(outputpins[j], inputpins[i]) # {}
                THEN /\ InDependencies(outputpins[j].oe_depends, inputpins[i])
                     /\ Occurrences(outputpins[j].oe_depends.bits, inputpins[i].bitmask) = 1
                     /\ Occurrences(outputpins[j].oe_depends.pinnames, inputpins[i].name) = 1
                ELSE NotInDependencies(outputpins[j].oe_depends, inputpins[i])

\* after the scan an input pin shown by two addresses is in oe_depends once,
\* beside an input pin that is not in it
C23_Witness ==
    /\ ScanDone
    /\ \E j \in OutputPinIndexes :
          \E i, k \in InputPinIndexes :
              /\ Cardinality(EnableWitnesses(outputpins[j], inputpins[i])) >= 2
              /\ Occurrences(outputpins[j].oe_depends.bits, inputpins[i].bitmask) = 1
              /\ BitAnd(outputpins[j].hizprobebitmask, inputpins[k].bitmask) = 0
              /\ NotInDependencies(outputpins[j].oe_depends, inputpins[k])

\* ---------------------------------------------------------------------------
\* the addresses with the probe bit of the pin clear at which the pin is not
\* hi-z and its bit has the level
DrivenAt(outputpin, level) ==
    {a \in AddressMasks :
        /\ BitAnd(a, outputpin.hizprobebitmask) = 0
        /\ ~HizAt(outputpin, a)
        /\ (BitAt(outputpin, a) # 0) = (level = 1)}

FlagsAsObserved(outputpin) ==
    /\ outputpin.seenhigh # 0 <=> DrivenAt(outputpin, 1) # {}
    /\ outputpin.seenlow # 0 <=> DrivenAt(outputpin, 0) # {}

\* C24, as stated: for every profile with A >= 1 and every output pin, after
\* the scan seen_high (seen_low) is set if and only if there is an address
\* with the probe bit of the pin clear at which the pin is not hi-z and its
\* bit is 1 (0).
C24_FlagsOfEveryProfile ==
    (ScanDone /\ device.eprom_address_width >= 1) =>
        \A j \in OutputPinIndexes : FlagsAsObserved(outputpins[j])

\* the profile has an input pin that is not the probe of the output pin
HasOtherInput(outputpin) ==
    \E i \in InputPinIndexes : inputpins[i].bitmask # outputpin.hizprobebitmask

FlagsKept ==
    \A j \in OutputPinIndexes :
        /\ outputpins[j].seenhigh # 0 => outputpins'[j].seenhigh # 0
        /\ outputpins[j].seenlow # 0 => outputpins'[j].seenlow # 0

\* C24, amended: for every output pin for which the profile has an input pin
\* other than the pin's own probe, after the scan seen_high (seen_low) is set
\* if and only if there is an address with the probe bit of the pin clear at
\* which the pin is not hi-z and its bit is 1 (0); a pin whose probe is the
\* only input pin, or a profile without input pins, has neither flag set; no
\* step resets a flag that is set.
C24_FlagsOfObservedPins ==
    /\ [](ScanDone =>
            \A j \in OutputPinIndexes :
                IF HasOtherInput(outputpins[j])
                THEN FlagsAsObserved(outputpins[j])
                ELSE outputpins[j].seenhigh = 0 /\ outputpins[j].seenlow = 0)
    /\ [][FlagsKept]_vars

\* after the scan of a profile with three input pins: a pin with a probe seen
\* low only, though its bit is 1 at an address where it is hi-z
C24_Witness ==
    /\ ScanDone
    /\ device.eprom_address_width = 3
    /\ \E j \in OutputPinIndexes :
          /\ HasProbe(outputpins[j])
          /\ outputpins[j].seenlow # 0
          /\ outputpins[j].seenhigh = 0
          /\ \E a \in AddressMasks :
                BitAnd(a, outputpins[j].hizprobebitmask) = 0 /\ BitAt(outputpins[j], a) # 0

\* ---------------------------------------------------------------------------
\* the constant that lines 1570-1582 write for a pin without dependencies
ConstantWritten(outputpin) ==
    IF outputpin.seenhigh # 0 THEN 1 ELSE IF outputpin.seenlow # 0 THEN 0 ELSE None

\* C25. A pin with no value dependency is constant: if after the scan
\* depends.bitmap = 0, the bit of the pin has one and the same value at every
\* address, with the probe bit of the pin clear, at which the pin is driven;
\* seen_high and seen_low are not both set for such a pin, and the constant
\* written for it, when one is written, is the level of every driven
\* observation.
C25_ConstantWithoutDependency ==
    ScanDone =>
        \A j \in OutputPinIndexes :
            outputpins[j].depends.bitmap = 0 =>
                /\ DrivenAt(outputpins[j], 0) = {} \/ DrivenAt(outputpins[j], 1) = {}
                /\ ~(outputpins[j].seenhigh # 0 /\ outputpins[j].seenlow # 0)
                /\ \A level \in {0, 1} :
                      (DrivenAt(outputpins[j], level) # {}
                          /\ ConstantWritten(outputpins[j]) # None)
                         => ConstantWritten(outputpins[j]) = level

\* the equations were built for a pin without dependencies that was seen
\* both low and high: no two driven addresses that differ in one input bit
\* show the two levels
C25_DrivenAtBothLevels ==
    /\ pc = "open"
    /\ \E j \in OutputPinIndexes :
          /\ outputpins[j].depends.bitmap = 0
          /\ outputpins[j].seenhigh # 0
          /\ outputpins[j].seenlow # 0
          /\ DrivenAt(outputpins[j], 0) # {}
          /\ DrivenAt(outputpins[j], 1) # {}

\* ---------------------------------------------------------------------------
\* the combinations of a pin with dependencies that are classified positive
\* or negative: the relevant ones
ClassifiedCombinations(outputpin) ==
    {addr \in SubMasksOf(outputpin.depends.bitmap) :
        /\ outputpin.depends.bitmap # 0
        /\ check_input_combination_is_relevent(device, dumpdata, outputpin, addr)}

\* C26. Classification reads the right combination: once the equations are
\* built, for every output pin and every minterm classified positive or
\* negative, the data word whose bit decided the classification was read at
\* an address whose bits on depends are the combination the minterm encodes,
\* also when the search over oe_depends is used and depends and oe_depends
\* share input pins, and the pin is driven at that address.
C26_RightCombination ==
    pc = "open" =>
        \A j \in OutputPinIndexes :
            \A addr \in ClassifiedCombinations(outputpins[j]) :
                LET got == get_output_pin_data(dumpdata, outputpins[j], addr)
                    minterm == build_outputpin_minterm(outputpins[j].depends, addr)
                IN /\ ~got.raised
                   /\ SeqContains(outputpins[j].posminterms, minterm)
                         <=> BitAnd(got.data, outputpins[j].bitmask) # 0
                   /\ SeqContains(outputpins[j].negminterms, minterm)
                         <=> BitAnd(got.data, outputpins[j].bitmask) = 0
                   /\ got.data = dumpdata[got.addr]
                   /\ UnchangedByProbe(outputpins[j], got.addr)
                   /\ build_outputpin_minterm(outputpins[j].depends, got.addr) = minterm

\* the equations were built for a pin that is hi-z at a combination of its
\* dependencies: the search found it driven at an address where a dependency
\* that is also an output enable dependency has another level, and the
\* minterm was classified by the bit read there
C26_ReadAtOtherCombination ==
    /\ pc = "open"
    /\ \E j \in OutputPinIndexes :
          \E addr \in ClassifiedCombinations(outputpins[j]) :
              LET got == get_output_pin_data(dumpdata, outputpins[j], addr)
              IN /\ ~got.raised
                 /\ BitAnd(outputpins[j].depends.bitmap, outputpins[j].oe_depends.bitmap) # 0
                 /\ BitAnd(got.addr, outputpins[j].depends.bitmap) # addr
                 /\ BitAt(outputpins[j], got.addr) # BitAt(outputpins[j], addr)

(***************************************************************************)
(* write_pin_equations as a function of the minimizer's answer: the        *)
(* answer is drawn from the answers the minimizer may give to a question   *)
(* over at most MaxSumInputs inputs, and WriteSum writes it.               *)
(***************************************************************************)
MaxSumInputs == 2

SumName == "O1"

SumPinNames(k) == SubSeq(<<"I1", "I2", "I3">>, 1, k)

SumQuestions ==
    UNION {{[k |-> k, on |-> on, dontcare |-> dontcare] :
               on \in SUBSET (0..(2 ^ k - 1)), dontcare \in SUBSET (0..(2 ^ k - 1))}
           : k \in 0..MaxSumInputs}

InitSum ==
    /\ \E question \in {q \in SumQuestions : q.on \cap q.dontcare = {}} :
          \E results \in SimplifyResults(question.k, question.on, question.dontcare) :
              simplified = {[question |-> question, results |-> results]}
    /\ args \in [polarity : {"positive", "negative"}, oepolarity : {"unread"}]
    /\ device = NoDevice
    /\ dumpdata = <<>>
    /\ outputpins = <<>>
    /\ pc = "sum"
    /\ eprom_address = 0
    /\ ipidx = 1
    /\ opidx = 1
    /\ equations = <<>>
    /\ error = "none"
    /\ today = 0
    /\ load = NoLoad
    /\ previous = NoPrevious

WriteSum ==
    /\ pc = "sum"
    /\ \E answer \in simplified :
          equations' = write_pin_equations(SumName, SumPinNames(answer.question.k),
                                           answer.results, args.polarity)
    /\ pc' = "written"
    /\ UNCHANGED <<device, dumpdata, outputpins, eprom_address, ipidx, opidx,
                   args, error, today, simplified, load, previous>>

NextSum == WriteSum

SpecSum == InitSum /\ [][NextSum]_vars

\* the answers that hold the same products as `results`, in any order
SameProducts(question, results) ==
    {other \in SimplifyResults(question.k, question.on, question.dontcare) :
        /\ other.kind = results.kind
        /\ Len(other.products) = Len(results.products)
        /\ SeqToSet(other.products) = SeqToSet(results.products)}

\* C27: the lines written for a product list are the same for every order in
\* which the minimizer may return the same set of products, products that share
\* a care mask and differ only in their value bits included
C27_OrderIndependent ==
    pc = "written" =>
        \A answer \in simplified :
            \A other \in SameProducts(answer.question, answer.results) :
                write_pin_equations(SumName, SumPinNames(answer.question.k),
                                    other, args.polarity) = equations

\* a written sum of two products that share their care mask
C27_SharedCareMask ==
    /\ pc = "written"
    /\ \E answer \in simplified :
          /\ answer.results.kind = "list"
          /\ Len(answer.results.products) = 2
          /\ answer.results.products[1][2] = answer.results.products[2][2]
          /\ answer.results.products[1][1] # answer.results.products[2][1]
          /\ Len(equations) = 2

RECURSIVE ScanAlone(_, _, _)
\* the scan of lines 633-747 run for one output pin only, from the input pin
\* at index i of the address addr on
ScanAlone(outputpin, addr, i) ==
    IF addr >= AddressCount THEN outputpin
    ELSE IF i > device.eprom_address_width THEN ScanAlone(outputpin, addr + 1, 1)
    ELSE LET inputpin == inputpins[i]
             scanned == IF \/ BitAnd(addr, inputpin.bitmask) > 0
                           \/ ProbeIsSet(outputpin, inputpin, addr)
                        THEN outputpin
                        ELSE ScanOutputPin(dumpdata, outputpin, inputpin, addr)
         IN ScanAlone(scanned, addr, i + 1)

\* the dependencies, the flags and the minterm lists of a pin record
AnalysisOf(outputpin) ==
    [depends |-> outputpin.depends, oe_depends |-> outputpin.oe_depends,
     seenlow |-> outputpin.seenlow, seenhigh |-> outputpin.seenhigh,
     dontcareterms |-> outputpin.dontcareterms,
     negminterms |-> outputpin.negminterms, posminterms |-> outputpin.posminterms,
     oenegminterms |-> outputpin.oenegminterms, oeposminterms |-> outputpin.oeposminterms]

\* what the scan and the builder compute for the pin at data bit j when it is
\* the only output pin they process
AnalysedAlone(j) ==
    BuildOutputPin(device, dumpdata,
                   ScanAlone(build_outputpins_configuration(device)[j], 0, 1))

\* C28: when the analysis has completed, the dependencies, the flags and the
\* minterm lists of every output pin are the ones computed from the image and
\* the pin's own bit and probe positions with no other output pin processed
C28_NoInterPinDependency ==
    pc = "open" =>
        \A j \in 1..Len(outputpins) :
            /\ ~AnalysedAlone(j).raised
            /\ AnalysisOf(outputpins[j]) = AnalysisOf(AnalysedAlone(j).pin)

\* a completed analysis of two output pins with different dependencies and
\* flags, one with value dependencies and the other with enable dependencies
C28_Witness ==
    /\ pc = "open"
    /\ Len(outputpins) = 2
    /\ outputpins[1].depends.bitmap # 0
    /\ outputpins[2].oe_depends.bitmap # 0
    /\ outputpins[1].depends.bitmap # outputpins[2].depends.bitmap
    /\ outputpins[1].seenlow # outputpins[2].seenlow

\* the address bit that is wired to the PAL pin of the output pin, 0 when the
\* profile has none
OwnProbeMask(outputpin) ==
    LET probe == palpinnum_to_epromaddrbitpos(device, outputpin.number)
    IN IF probe = None THEN 0 ELSE ShiftLeft(1, probe)

\* C29: after the scan an output pin that has a hi-z probe has its probe bit in
\* neither depends.bitmap nor oe_depends.bitmap, and every sub-address iterated
\* for its output and enable minterms has the probe bit clear
C29_NeverOwnProbe ==
    ScanDone =>
        \A j \in 1..Len(outputpins) :
            LET outputpin == outputpins[j]
                probe == OwnProbeMask(outputpin)
                output == iterate_mask(outputpin.depends.bitmap)
                enable == iterate_mask(outputpin.oe_depends.bitmap)
            IN probe # 0 =>
                  /\ BitAnd(outputpin.depends.bitmap, probe) = 0
                  /\ BitAnd(outputpin.oe_depends.bitmap, probe) = 0
                  /\ \A i \in 1..Len(output) : BitAnd(output[i], probe) = 0
                  /\ \A i \in 1..Len(enable) : BitAnd(enable[i], probe) = 0

\* a scanned pin with a probe, whose value and whose enable both depend on
\* other inputs
C29_Witness ==
    /\ ScanDone
    /\ \E j \in 1..Len(outputpins) :
          /\ OwnProbeMask(outputpins[j]) # 0
          /\ outputpins[j].hizprobebitmask = OwnProbeMask(outputpins[j])
          /\ outputpins[j].depends.bitmap # 0
          /\ outputpins[j].oe_depends.bitmap # 0

====
